---------------------------- MODULE Spec2Model ----------------------------
(***************************************************************************)
(* The SPARC instruction-selection pass of libfirm                         *)
(* (ir/be/sparc/sparc_transform.c) as a state machine.                     *)
(*                                                                         *)
(* The source graph is a sequence of node records (the node id is the      *)
(* index).  The target graph is a growing sequence of node records.  A     *)
(* predecessor slot of a target node holds a positive number (a target     *)
(* node) or a negative number -s (the source node s, as left behind by     *)
(* gen_Phi and by the block transformer until the fixup).                  *)
(*                                                                         *)
(* A handler is modelled by two operators: X_requests(node), the sequence  *)
(* of be_transform_node() calls the handler makes, in the order of the     *)
(* code, and X(node, imgs), what the handler builds from the results of    *)
(* these calls.  The recursion of be_transform_node is an explicit stack.  *)
(***************************************************************************)
EXTENDS Integers, Sequences, FiniteSets, TLC

VARIABLES
    src,        \* the source graph: node id -> node record (Proj selectors and modes are mutable)
    src0,       \* history: the source graph as it was handed to the pass
    roots,      \* the nodes the driver seeded the worklist with
    tgt,        \* the target graph: sequence of target node records
    memo,       \* source node id -> target node index, 0 when not transformed
    worklist,   \* the driver's queue of source nodes
    stack,      \* the active be_transform_node calls: frames [node, i, imgs]
    phase,      \* "transform", "fixup", "done", "fatal"
    calls,      \* history: how often the handler of each source node was invoked
    rets,       \* history: the results be_transform_node returned for each source node
    order,      \* history: the events "visit", "hit", "install", "rewire" in the order they happened
    run         \* the emitted code of one lowered Abs executed on one register value: <<>> or <<[node, x, result]>>

vars == <<src, src0, roots, tgt, memo, worklist, stack, phase, calls, rets, order, run>>

-----------------------------------------------------------------------------
(* Modes *)

IntModes == {"Bs", "Bu", "Hs", "Hu", "Is", "Iu", "Ls", "Lu"}
FloatModes == {"F", "D", "E"}

mode_Iu == "Iu"
mode_M == "M"
mode_T == "T"
mode_X == "X"
mode_b == "b"

mode_is_int(mode) == mode \in IntModes

mode_is_reference(mode) == mode = "P"

mode_is_float(mode) == mode \in FloatModes

mode_is_signed(mode) == mode \in {"Bs", "Hs", "Is", "Ls", "F", "D", "E"}

mode_is_data(mode) == mode_is_int(mode) \/ mode_is_reference(mode) \/ mode_is_float(mode)

get_mode_size_bits(mode) ==
    CASE mode \in {"Bs", "Bu"} -> 8
      [] mode \in {"Hs", "Hu"} -> 16
      [] mode \in {"Is", "Iu", "P", "F"} -> 32
      [] mode \in {"Ls", "Lu", "D"} -> 64
      [] mode = "E" -> 128
      [] OTHER -> 0

mode_needs_gp_reg(mode) == mode_is_int(mode) \/ mode_is_reference(mode)

-----------------------------------------------------------------------------
(* Node records *)

\* a source node
SN(op, mode, block, ins, val) ==
    [op |-> op, mode |-> mode, block |-> block, ins |-> ins, val |-> val, amode |-> ""]

\* a target node, as a builder returns it
TN(op, mode, block, ins, imm) ==
    [op |-> op, mode |-> mode, block |-> block, ins |-> ins, imm |-> imm,
     aux |-> 0, frame |-> FALSE, reg |-> "", req |-> "", flags |-> FALSE,
     amode |-> "", nr |-> 0]

INT_MAX == 2147483647
INT_MIN == (0 - INT_MAX) - 1

\* The C conversion (int) of a long.  Every number of the model lies in
\* INT_MIN .. INT_MAX (the model checker has no others), and there the
\* conversion changes nothing.
ToInt(v) == IF v >= INT_MIN /\ v <= INT_MAX THEN v ELSE 0

Nodes == DOMAIN src

NoMem == 1

\* what a handler hands back to be_transform_node
Ret(new, res) == [fatal |-> FALSE, new |-> new, res |-> res, enq |-> <<>>, src |-> src]

Panic == [fatal |-> TRUE, new |-> <<>>, res |-> 0, enq |-> <<>>, src |-> src]

\* index of the k-th node a handler creates
Fresh(k) == Len(tgt) + k


-----------------------------------------------------------------------------
(* Accessors of the source graph *)

get_nodes_block(node) == src[node].block

get_irn_mode(node) == src[node].mode

is_Const(node) == src[node].op = "Const"

get_tarval_long(node) == src[node].val

\* Div carries its memory operand first
get_binop_left(node) == IF src[node].op = "Div" THEN src[node].ins[2] ELSE src[node].ins[1]

get_binop_right(node) == IF src[node].op = "Div" THEN src[node].ins[3] ELSE src[node].ins[2]

get_Proj_pred(node) == src[node].ins[1]

get_Proj_proj(node) == src[node].val

\* the out edges of a node: its users in the source graph
out_edges(node) == {p \in Nodes : \E i \in 1..Len(src[p].ins) : src[p].ins[i] = node}

\* selectors of the Projs of the source graph and of the target graph
pn_Load_M == 0
pn_Load_res == 3
pn_Store_M == 0
pn_Div_res == 3
pn_be_AddSP_sp == 0
pn_be_AddSP_res == 1
pn_be_AddSP_M == 2
pn_be_SubSP_sp == 0
pn_be_SubSP_M == 1
pn_sparc_Ld_res == 0
pn_sparc_Ld_M == 1
pn_sparc_SubSP_stack == 0
pn_sparc_SubSP_M == 1
pn_sparc_AddSP_stack == 0
pn_sparc_AddSP_M == 1
pn_sparc_Div_res == 0
pn_sparc_Mul_low == 0
pn_sparc_Mulh_low == 0

\* new_rd_Proj: a Proj lives in the block of its predecessor
new_rd_Proj(pred, mode, pn) == TN("Proj", mode, tgt[pred].block, <<pred>>, pn)

\* mode of the node a SPARC builder creates
sparc_mode(op) ==
    CASE op \in {"Mul_reg", "Mul_imm", "Mulh_reg", "Mulh_imm", "Div_reg", "Div_imm",
                 "Ld", "SubSP", "AddSP", "SwitchJmp", "BXX"} -> mode_T
      [] op = "St" -> mode_M
      [] op = "Ba" -> mode_X
      [] op = "Cmp_reg" -> "flags"
      [] OTHER -> mode_Iu

new_bd_sparc_reg(op, block, op1, op2) == TN(op, sparc_mode(op), block, <<op1, op2>>, 0)

new_bd_sparc_imm(op, block, op1, simm13) == TN(op, sparc_mode(op), block, <<op1>>, ToInt(simm13))

-----------------------------------------------------------------------------
(* Extension and constants.  A helper that creates nodes gets the number  *)
(* `base` of nodes its caller has created so far, and returns             *)
(* [fatal, new, res]: the nodes it creates and the index of its result.   *)

gen_zero_extension(block, op, src_bits, base) ==
    IF src_bits = 8
    THEN [fatal |-> FALSE, res |-> Fresh(base + 1),
          new |-> <<new_bd_sparc_imm("And_imm", block, op, 255)>>]
    ELSE IF src_bits = 16
    THEN [fatal |-> FALSE, res |-> Fresh(base + 2),
          new |-> <<new_bd_sparc_imm("Sll_imm", block, op, 16),
                    new_bd_sparc_imm("Slr_imm", block, Fresh(base + 1), 16)>>]
    ELSE [fatal |-> TRUE, res |-> 0, new |-> <<>>]

\* gen_sign_extension shifting by the width of the value instead of 32 - width
gen_sign_extension_WrongWidth(block, op, src_bits, base) ==
    LET shift_width == src_bits
    IN  [fatal |-> FALSE, res |-> Fresh(base + 2),
         new |-> <<new_bd_sparc_imm("Sll_imm", block, op, shift_width),
                   new_bd_sparc_imm("Sra_imm", block, Fresh(base + 1), shift_width)>>]

gen_sign_extension(block, op, src_bits, base) ==
    LET shift_width == 32 - src_bits
    IN  [fatal |-> FALSE, res |-> Fresh(base + 2),
         new |-> <<new_bd_sparc_imm("Sll_imm", block, op, shift_width),
                   new_bd_sparc_imm("Sra_imm", block, Fresh(base + 1), shift_width)>>]

upper_bits_clean(transformed_node, mode) == FALSE

gen_extension(block, op, orig_mode, base) ==
    LET bits == get_mode_size_bits(orig_mode)
    IN  IF bits = 32
        THEN [fatal |-> FALSE, res |-> op, new |-> <<>>]
        ELSE IF mode_is_signed(orig_mode)
             THEN gen_sign_extension(block, op, bits, base)
             ELSE gen_zero_extension(block, op, bits, base)

\* create_const_graph_value without be_dep_on_frame(hi)
create_const_graph_value_NoDep(block, value, base) ==
    IF value < -4096 \/ value > 4095
    THEN [fatal |-> FALSE, res |-> Fresh(base + 2),
          new |-> <<TN("HiImm", mode_Iu, block, <<>>, ToInt(value)),
                    TN("LoImm", mode_Iu, block, <<Fresh(base + 1)>>, ToInt(value))>>]
    ELSE [fatal |-> FALSE, res |-> Fresh(base + 1),
          new |-> <<[TN("Mov_imm", mode_Iu, block, <<>>, ToInt(value)) EXCEPT !.frame = TRUE]>>]

create_const_graph_value(block, value, base) ==
    IF value < -4096 \/ value > 4095
    THEN [fatal |-> FALSE, res |-> Fresh(base + 2),
          new |-> <<[TN("HiImm", mode_Iu, block, <<>>, ToInt(value)) EXCEPT !.frame = TRUE],
                    TN("LoImm", mode_Iu, block, <<Fresh(base + 1)>>, ToInt(value))>>]
    ELSE [fatal |-> FALSE, res |-> Fresh(base + 1),
          new |-> <<[TN("Mov_imm", mode_Iu, block, <<>>, ToInt(value)) EXCEPT !.frame = TRUE]>>]

\* tarval_convert_to(tv, mode_Iu) of a reference tarval: the same 32 bits read
\* as unsigned; reference tarvals of the model are in 0 .. INT_MAX, which it keeps
tarval_convert_to_Iu(v) == IF v >= 0 THEN v ELSE v + INT_MAX + INT_MAX + 2

create_const_graph(irn, block) ==
    LET mode  == src[irn].mode
        value == IF mode_is_reference(mode)
                 THEN tarval_convert_to_Iu(get_tarval_long(irn))
                 ELSE get_tarval_long(irn)
    IN  create_const_graph_value(block, value, 0)

\* is_imm_encodeable with the upper limit off by one
is_imm_encodeable_OffByOne(node) ==
    IF ~is_Const(node)
    THEN FALSE
    ELSE LET val == get_tarval_long(node)
         IN  ~(val < -4096 \/ val > 4096)

is_imm_encodeable(node) ==
    IF ~is_Const(node)
    THEN FALSE
    ELSE LET val == get_tarval_long(node)
         IN  ~(val < -4096 \/ val > 4095)

-----------------------------------------------------------------------------
(* Binary operators *)

MATCH_NONE == {}
MATCH_COMMUTATIVE == "COMMUTATIVE"
MATCH_SIZE_NEUTRAL == "SIZE_NEUTRAL"

\* gen_helper_binop transforming both operands before it looks for an immediate
gen_helper_binop_requests_Eager(node, flags) ==
    <<get_nodes_block(node), get_binop_right(node), get_binop_left(node)>>

gen_helper_binop_requests(node, flags) ==
    LET op1 == get_binop_left(node)
        op2 == get_binop_right(node)
    IN  IF is_imm_encodeable(op2)
        THEN <<get_nodes_block(node), op1>>
        ELSE IF MATCH_COMMUTATIVE \in flags /\ is_imm_encodeable(op1)
             THEN <<get_nodes_block(node), op2>>
             ELSE <<get_nodes_block(node), op2, op1>>

\* gen_helper_binop passing the operand images to the _reg constructor in reverse
gen_helper_binop_SwappedReg(node, imgs, flags, new_reg, new_imm) ==
    LET block == imgs[1]
        op1   == get_binop_left(node)
        op2   == get_binop_right(node)
    IN  IF is_imm_encodeable(op2)
        THEN Ret(<<new_bd_sparc_imm(new_imm, block, imgs[2], get_tarval_long(op2))>>, Fresh(1))
        ELSE IF MATCH_COMMUTATIVE \in flags /\ is_imm_encodeable(op1)
             THEN Ret(<<new_bd_sparc_imm(new_imm, block, imgs[2], get_tarval_long(op1))>>, Fresh(1))
             ELSE Ret(<<new_bd_sparc_reg(new_reg, block, imgs[2], imgs[3])>>, Fresh(1))

\* gen_helper_binop folding a left-hand Const whatever the flags say
gen_helper_binop_IgnoreFlags(node, imgs, flags, new_reg, new_imm) ==
    LET block == imgs[1]
        op1   == get_binop_left(node)
        op2   == get_binop_right(node)
    IN  IF is_imm_encodeable(op2)
        THEN Ret(<<new_bd_sparc_imm(new_imm, block, imgs[2], get_tarval_long(op2))>>, Fresh(1))
        ELSE IF is_imm_encodeable(op1)
             THEN Ret(<<new_bd_sparc_imm(new_imm, block, imgs[2], get_tarval_long(op1))>>, Fresh(1))
             ELSE Ret(<<new_bd_sparc_reg(new_reg, block, imgs[3], imgs[2])>>, Fresh(1))

gen_helper_binop(node, imgs, flags, new_reg, new_imm) ==
    LET block == imgs[1]
        op1   == get_binop_left(node)
        op2   == get_binop_right(node)
    IN  IF is_imm_encodeable(op2)
        THEN Ret(<<new_bd_sparc_imm(new_imm, block, imgs[2], get_tarval_long(op2))>>, Fresh(1))
        ELSE IF MATCH_COMMUTATIVE \in flags /\ is_imm_encodeable(op1)
             THEN Ret(<<new_bd_sparc_imm(new_imm, block, imgs[2], get_tarval_long(op1))>>, Fresh(1))
             ELSE Ret(<<new_bd_sparc_reg(new_reg, block, imgs[3], imgs[2])>>, Fresh(1))

gen_helper_binfpop_requests(node) ==
    <<get_nodes_block(node), get_binop_right(node), get_binop_left(node)>>

gen_helper_binfpop(node, imgs, new_reg) ==
    Ret(<<TN(new_reg, get_irn_mode(node), imgs[1], <<imgs[3], imgs[2]>>, 0)>>, Fresh(1))

\* gen_Add, gen_Sub, gen_And, gen_Or, gen_Xor: the block, the FP check, the helper
IntBinop_requests(node, flags) ==
    IF mode_is_float(get_irn_mode(node))
    THEN <<get_nodes_block(node)>>
    ELSE <<get_nodes_block(node)>> \o gen_helper_binop_requests(node, flags)

IntBinop(node, imgs, flags, new_reg, new_imm) ==
    IF mode_is_float(get_irn_mode(node))
    THEN Panic
    ELSE gen_helper_binop(node, Tail(imgs), flags, new_reg, new_imm)

gen_Add_requests(node) == IntBinop_requests(node, {MATCH_COMMUTATIVE, MATCH_SIZE_NEUTRAL})

gen_Add(node, imgs) ==
    IntBinop(node, imgs, {MATCH_COMMUTATIVE, MATCH_SIZE_NEUTRAL}, "Add_reg", "Add_imm")

gen_Sub_requests(node) == IntBinop_requests(node, {MATCH_SIZE_NEUTRAL})

gen_Sub(node, imgs) == IntBinop(node, imgs, {MATCH_SIZE_NEUTRAL}, "Sub_reg", "Sub_imm")

gen_And_requests(node) == IntBinop_requests(node, {MATCH_COMMUTATIVE})

gen_And(node, imgs) == IntBinop(node, imgs, {MATCH_COMMUTATIVE}, "And_reg", "And_imm")

gen_Or_requests(node) == IntBinop_requests(node, {MATCH_COMMUTATIVE})

gen_Or(node, imgs) == IntBinop(node, imgs, {MATCH_COMMUTATIVE}, "Or_reg", "Or_imm")

gen_Xor_requests(node) == IntBinop_requests(node, {MATCH_COMMUTATIVE})

gen_Xor(node, imgs) == IntBinop(node, imgs, {MATCH_COMMUTATIVE}, "Xor_reg", "Xor_imm")

gen_Shl_requests(node) == gen_helper_binop_requests(node, {MATCH_SIZE_NEUTRAL})

gen_Shl(node, imgs) == gen_helper_binop(node, imgs, {MATCH_SIZE_NEUTRAL}, "Sll_reg", "Sll_imm")

gen_Shr_requests(node) == gen_helper_binop_requests(node, {MATCH_SIZE_NEUTRAL})

gen_Shr(node, imgs) == gen_helper_binop(node, imgs, {MATCH_SIZE_NEUTRAL}, "Slr_reg", "Slr_imm")

gen_Shra_requests(node) == gen_helper_binop_requests(node, {MATCH_SIZE_NEUTRAL})

gen_Shra(node, imgs) == gen_helper_binop(node, imgs, {MATCH_SIZE_NEUTRAL}, "Sra_reg", "Sra_imm")

gen_Mul_requests(node) ==
    IF mode_is_float(get_irn_mode(node))
    THEN gen_helper_binfpop_requests(node)
    ELSE gen_helper_binop_requests(node, {MATCH_COMMUTATIVE, MATCH_SIZE_NEUTRAL})

gen_Mul(node, imgs) ==
    IF mode_is_float(get_irn_mode(node))
    THEN gen_helper_binfpop(node, imgs, "fMul")
    ELSE LET r   == gen_helper_binop(node, imgs, {MATCH_COMMUTATIVE, MATCH_SIZE_NEUTRAL},
                                     "Mul_reg", "Mul_imm")
             mul == [r.new[1] EXCEPT !.flags = TRUE]
         IN  Ret(<<mul, TN("Proj", mode_Iu, mul.block, <<Fresh(1)>>, pn_sparc_Mul_low)>>, Fresh(2))

gen_Mulh_requests(node) ==
    IF mode_is_float(get_irn_mode(node))
    THEN <<>>
    ELSE gen_helper_binop_requests(node, {MATCH_COMMUTATIVE, MATCH_SIZE_NEUTRAL})

gen_Mulh(node, imgs) ==
    IF mode_is_float(get_irn_mode(node))
    THEN Panic
    ELSE LET r   == gen_helper_binop(node, imgs, {MATCH_COMMUTATIVE, MATCH_SIZE_NEUTRAL},
                                     "Mulh_reg", "Mulh_imm")
             mul == r.new[1]
         IN  Ret(<<mul, TN("Proj", mode_Iu, mul.block, <<Fresh(1)>>, pn_sparc_Mulh_low)>>, Fresh(2))

gen_Div_requests(node) ==
    IF mode_is_float(get_irn_mode(node))
    THEN <<>>
    ELSE gen_helper_binop_requests(node, {MATCH_SIZE_NEUTRAL})

gen_Div(node, imgs) ==
    IF mode_is_float(get_irn_mode(node))
    THEN Panic
    ELSE gen_helper_binop(node, imgs, {MATCH_SIZE_NEUTRAL}, "Div_reg", "Div_imm")

-----------------------------------------------------------------------------
(* Generic services of the transformation helper *)

be_duplicate_node_requests(node) == <<get_nodes_block(node)>> \o src[node].ins

\* a copy of the node in the target graph: same opcode, mode, attributes and
\* node number, operands replaced by their images
be_duplicate_node(node, imgs) ==
    Ret(<<[TN(src[node].op, src[node].mode, imgs[1], Tail(imgs), src[node].val)
             EXCEPT !.amode = src[node].amode, !.nr = node]>>, Fresh(1))

\* the placeholder predecessors gen_Phi and the block transformer leave behind
Placeholders(node) == [i \in 1..Len(src[node].ins) |-> 0 - src[node].ins[i]]

be_enqueue_preds(node) == src[node].ins

transform_block_requests(node) == <<>>

transform_block(node, imgs) ==
    [Ret(<<[TN("Block", src[node].mode, 0, Placeholders(node), 0) EXCEPT !.nr = node]>>, Fresh(1))
       EXCEPT !.enq = be_enqueue_preds(node)]

-----------------------------------------------------------------------------
(* Unary operators and constants *)

gen_Abs_requests(node) ==
    IF mode_is_float(get_irn_mode(node))
    THEN <<get_nodes_block(node)>>
    ELSE <<get_nodes_block(node), src[node].ins[1]>>

\* gen_Abs subtracting the sign mask from the Xor
gen_Abs_SwappedSub(node, imgs) ==
    IF mode_is_float(get_irn_mode(node))
    THEN Panic
    ELSE LET block  == imgs[1]
             new_op == imgs[2]
             mov == TN("Mov_reg", mode_Iu, block, <<new_op>>, 0)
             sra == new_bd_sparc_imm("Sra_imm", block, Fresh(1), 31)
             xor == new_bd_sparc_reg("Xor_reg", block, new_op, Fresh(2))
             sub == new_bd_sparc_reg("Sub_reg", block, Fresh(3), Fresh(2))
         IN  Ret(<<mov, sra, xor, sub>>, Fresh(4))

gen_Abs(node, imgs) ==
    IF mode_is_float(get_irn_mode(node))
    THEN Panic
    ELSE LET block  == imgs[1]
             new_op == imgs[2]
             mov == TN("Mov_reg", mode_Iu, block, <<new_op>>, 0)
             sra == new_bd_sparc_imm("Sra_imm", block, Fresh(1), 31)
             xor == new_bd_sparc_reg("Xor_reg", block, new_op, Fresh(2))
             sub == new_bd_sparc_reg("Sub_reg", block, Fresh(2), Fresh(3))
         IN  Ret(<<mov, sra, xor, sub>>, Fresh(4))

gen_Not_requests(node) == <<get_nodes_block(node), src[node].ins[1]>>

gen_Not(node, imgs) == Ret(<<TN("Not", mode_Iu, imgs[1], <<imgs[2]>>, 0)>>, Fresh(1))

gen_Minus_requests(node) == <<get_nodes_block(node), src[node].ins[1]>>

\* gen_Minus without the floating-point check
gen_Minus_NoFloatCheck(node, imgs) ==
    Ret(<<TN("Minus", mode_Iu, imgs[1], <<imgs[2]>>, 0)>>, Fresh(1))

gen_Minus(node, imgs) ==
    IF mode_is_float(get_irn_mode(node))
    THEN Panic
    ELSE Ret(<<TN("Minus", mode_Iu, imgs[1], <<imgs[2]>>, 0)>>, Fresh(1))

create_fp_const_graph(irn, block) == Panic

gen_Const_requests(node) == <<get_nodes_block(node)>>

gen_Const(node, imgs) ==
    IF mode_is_float(get_irn_mode(node))
    THEN create_fp_const_graph(node, imgs[1])
    ELSE LET c == create_const_graph(node, imgs[1])
         IN  Ret(c.new, c.res)

gen_SymConst_requests(node) == <<get_nodes_block(node)>>

gen_SymConst(node, imgs) ==
    Ret(<<[TN("SymConst", mode_Iu, imgs[1], <<>>, src[node].val) EXCEPT !.frame = TRUE]>>, Fresh(1))

gen_Unknown_requests(node) == <<get_nodes_block(node)>>

gen_Unknown(node, imgs) ==
    LET mode == get_irn_mode(node)
    IN  IF mode_is_float(mode)
        THEN Panic
        ELSE IF mode_needs_gp_reg(mode)
             THEN LET c == create_const_graph_value(imgs[1], 0, 0)
                  IN  Ret(c.new, c.res)
             ELSE Panic

-----------------------------------------------------------------------------
(* Memory, address, stack *)

\* Load: ins = <<mem, ptr>>, amode = the loaded mode
gen_Load_requests(node) == <<get_nodes_block(node), src[node].ins[2], src[node].ins[1]>>

gen_Load(node, imgs) ==
    IF mode_is_float(src[node].amode)
    THEN Panic
    ELSE Ret(<<[TN("Ld", sparc_mode("Ld"), imgs[1], <<imgs[2], imgs[3]>>, 0)
                  EXCEPT !.amode = src[node].amode]>>, Fresh(1))

\* Store: ins = <<mem, ptr, value>>
gen_Store_requests(node) ==
    <<get_nodes_block(node), src[node].ins[2], src[node].ins[1], src[node].ins[3]>>

gen_Store(node, imgs) ==
    LET mode == get_irn_mode(src[node].ins[3])
    IN  IF mode_is_float(mode)
        THEN Panic
        ELSE Ret(<<[TN("St", sparc_mode("St"), imgs[1], <<imgs[2], imgs[4], imgs[3]>>, 0)
                      EXCEPT !.amode = mode]>>, Fresh(1))

\* be_AddSP, be_SubSP: ins = <<old_sp, size>>
gen_be_AddSP_requests(node) == <<get_nodes_block(node), src[node].ins[2], src[node].ins[1]>>

\* gen_be_AddSP keeping the direction
gen_be_AddSP_NotInverted(node, imgs) ==
    Ret(<<TN("AddSP", sparc_mode("AddSP"), imgs[1], <<imgs[3], imgs[2], NoMem>>, 0)>>, Fresh(1))

gen_be_AddSP(node, imgs) ==
    Ret(<<TN("SubSP", sparc_mode("SubSP"), imgs[1], <<imgs[3], imgs[2], NoMem>>, 0)>>, Fresh(1))

gen_be_SubSP_requests(node) == <<get_nodes_block(node), src[node].ins[2], src[node].ins[1]>>

gen_be_SubSP(node, imgs) ==
    Ret(<<TN("AddSP", sparc_mode("AddSP"), imgs[1], <<imgs[3], imgs[2], NoMem>>, 0)>>, Fresh(1))

gen_be_FrameAddr_requests(node) == <<get_nodes_block(node), src[node].ins[1]>>

gen_be_FrameAddr(node, imgs) ==
    Ret(<<TN("FrameAddr", mode_Iu, imgs[1], <<imgs[2]>>, src[node].val)>>, Fresh(1))

gen_be_Copy_requests(node) == be_duplicate_node_requests(node)

\* set_irn_mode is applied to `node`, the source node
gen_be_Copy(node, imgs) ==
    LET result == be_duplicate_node(node, imgs)
        mode   == result.new[1].mode
    IN  IF mode_needs_gp_reg(mode)
        THEN [result EXCEPT !.src = [src EXCEPT ![node].mode = mode_Iu]]
        ELSE result

gen_be_Call_requests(node) == be_duplicate_node_requests(node)

gen_be_Call(node, imgs) ==
    LET res == be_duplicate_node(node, imgs)
    IN  [res EXCEPT !.new = <<[res.new[1] EXCEPT !.flags = TRUE]>>]

-----------------------------------------------------------------------------
(* Control flow *)

\* the Projs at the out edges of a Cond
CondProjs(node) == {p \in out_edges(node) : src[p].op = "Proj"}

\* the loop of lines 686-694: min and max of the selectors, starting at INT_MAX, INT_MIN
RECURSIVE MinPn(_, _)
MinPn(projs, min) ==
    IF projs = {}
    THEN min
    ELSE LET proj == CHOOSE p \in projs : TRUE
             pn   == ToInt(get_Proj_proj(proj))
         IN  MinPn(projs \ {proj}, IF pn < min THEN pn ELSE min)

RECURSIVE MaxPn(_, _)
MaxPn(projs, max) ==
    IF projs = {}
    THEN max
    ELSE LET proj == CHOOSE p \in projs : TRUE
             pn   == ToInt(get_Proj_proj(proj))
         IN  MaxPn(projs \ {proj}, IF pn > max THEN pn ELSE max)

gen_SwitchJmp_requests(node) == <<get_nodes_block(node), src[node].ins[1]>>

\* gen_SwitchJmp applying the translation to the selectors twice
gen_SwitchJmp_TranslatedTwice(node, imgs) ==
    LET block       == imgs[1]
        new_op      == imgs[2]
        projs       == CondProjs(node)
        min         == MinPn(projs, INT_MAX)
        max         == MaxPn(projs, INT_MIN)
        translation == min
        n_projs     == ToInt(max - translation + 1)
        rewritten   == [p \in Nodes |->
                          IF p \in projs
                          THEN [src[p] EXCEPT
                                  !.val = ToInt(ToInt(get_Proj_proj(p) - translation) - translation)]
                          ELSE src[p]]
        const_graph == create_const_graph_value(block, translation, 0)
        nconst      == Len(const_graph.new)
        sub         == new_bd_sparc_reg("Sub_reg", block, new_op, const_graph.res)
        jmp         == [TN("SwitchJmp", sparc_mode("SwitchJmp"), block, <<Fresh(nconst + 1)>>, n_projs)
                          EXCEPT !.aux = src[node].val - translation]
    IN  [Ret(const_graph.new \o <<sub, jmp>>, Fresh(nconst + 2)) EXCEPT !.src = rewritten]

\* gen_SwitchJmp with n_projs = max - translation
gen_SwitchJmp_NProjsOffByOne(node, imgs) ==
    LET block       == imgs[1]
        new_op      == imgs[2]
        projs       == CondProjs(node)
        min         == MinPn(projs, INT_MAX)
        max         == MaxPn(projs, INT_MIN)
        translation == min
        n_projs     == ToInt(max - translation)
        rewritten   == [p \in Nodes |->
                          IF p \in projs
                          THEN [src[p] EXCEPT !.val = ToInt(get_Proj_proj(p) - translation)]
                          ELSE src[p]]
        const_graph == create_const_graph_value(block, translation, 0)
        nconst      == Len(const_graph.new)
        sub         == new_bd_sparc_reg("Sub_reg", block, new_op, const_graph.res)
        jmp         == [TN("SwitchJmp", sparc_mode("SwitchJmp"), block, <<Fresh(nconst + 1)>>, n_projs)
                          EXCEPT !.aux = src[node].val - translation]
    IN  [Ret(const_graph.new \o <<sub, jmp>>, Fresh(nconst + 2)) EXCEPT !.src = rewritten]

\* gen_SwitchJmp passing the default Proj number untranslated
gen_SwitchJmp_DefaultUntranslated(node, imgs) ==
    LET block       == imgs[1]
        new_op      == imgs[2]
        projs       == CondProjs(node)
        min         == MinPn(projs, INT_MAX)
        max         == MaxPn(projs, INT_MIN)
        translation == min
        n_projs     == ToInt(max - translation + 1)
        rewritten   == [p \in Nodes |->
                          IF p \in projs
                          THEN [src[p] EXCEPT !.val = ToInt(get_Proj_proj(p) - translation)]
                          ELSE src[p]]
        const_graph == create_const_graph_value(block, translation, 0)
        nconst      == Len(const_graph.new)
        sub         == new_bd_sparc_reg("Sub_reg", block, new_op, const_graph.res)
        jmp         == [TN("SwitchJmp", sparc_mode("SwitchJmp"), block, <<Fresh(nconst + 1)>>, n_projs)
                          EXCEPT !.aux = src[node].val]
    IN  [Ret(const_graph.new \o <<sub, jmp>>, Fresh(nconst + 2)) EXCEPT !.src = rewritten]

gen_SwitchJmp(node, imgs) ==
    LET block       == imgs[1]
        new_op      == imgs[2]
        projs       == CondProjs(node)
        min         == MinPn(projs, INT_MAX)
        max         == MaxPn(projs, INT_MIN)
        translation == min
        n_projs     == ToInt(max - translation + 1)
        rewritten   == [p \in Nodes |->
                          IF p \in projs
                          THEN [src[p] EXCEPT !.val = ToInt(get_Proj_proj(p) - translation)]
                          ELSE src[p]]
        const_graph == create_const_graph_value(block, translation, 0)
        nconst      == Len(const_graph.new)
        sub         == new_bd_sparc_reg("Sub_reg", block, new_op, const_graph.res)
        jmp         == [TN("SwitchJmp", sparc_mode("SwitchJmp"), block, <<Fresh(nconst + 1)>>, n_projs)
                          EXCEPT !.aux = src[node].val - translation]
    IN  [Ret(const_graph.new \o <<sub, jmp>>, Fresh(nconst + 2)) EXCEPT !.src = rewritten]

\* Cond: ins = <<selector>>, val = the default Proj number
gen_Cond_requests(node) ==
    LET selector == src[node].ins[1]
    IN  IF get_irn_mode(selector) # mode_b
        THEN gen_SwitchJmp_requests(node)
        ELSE <<get_nodes_block(node), get_Proj_pred(selector)>>

gen_Cond(node, imgs) ==
    LET selector == src[node].ins[1]
    IN  IF get_irn_mode(selector) # mode_b
        THEN gen_SwitchJmp(node, imgs)
        ELSE Ret(<<[TN("BXX", sparc_mode("BXX"), imgs[1], <<imgs[2]>>, get_Proj_proj(selector))
                      EXCEPT !.aux = 0]>>, Fresh(1))

\* whether gen_extension ends in panic() for this mode
ExtensionPanics(mode) ==
    LET bits == get_mode_size_bits(mode)
    IN  bits # 32 /\ ~mode_is_signed(mode) /\ bits # 8 /\ bits # 16

gen_Cmp_requests(node) ==
    LET op1      == src[node].ins[1]
        op2      == src[node].ins[2]
        cmp_mode == get_irn_mode(op1)
    IN  IF mode_is_float(cmp_mode)
        THEN <<get_nodes_block(node)>>
        ELSE IF ExtensionPanics(cmp_mode)
             THEN <<get_nodes_block(node), op1>>
             ELSE <<get_nodes_block(node), op1, op2>>

\* Cmp_reg: imm = the carry argument (false), aux = is_unsigned
gen_Cmp(node, imgs) ==
    LET block    == imgs[1]
        cmp_mode == get_irn_mode(src[node].ins[1])
        is_unsigned == ~mode_is_signed(cmp_mode)
    IN  IF mode_is_float(cmp_mode)
        THEN Panic
        ELSE LET e1 == gen_extension(block, imgs[2], cmp_mode, 0)
             IN  IF e1.fatal
                 THEN Panic
                 ELSE LET e2 == gen_extension(block, imgs[3], cmp_mode, Len(e1.new))
                      IN  IF e2.fatal
                          THEN Panic
                          ELSE Ret(e1.new \o e2.new \o
                                   <<[new_bd_sparc_reg("Cmp_reg", block, e1.res, e2.res)
                                        EXCEPT !.aux = IF is_unsigned THEN 1 ELSE 0]>>,
                                   Fresh(Len(e1.new) + Len(e2.new) + 1))

gen_Jmp_requests(node) == <<get_nodes_block(node)>>

gen_Jmp(node, imgs) == Ret(<<TN("Ba", sparc_mode("Ba"), imgs[1], <<>>, 0)>>, Fresh(1))

\* gen_Phi transforming its first operand itself
gen_Phi_requests_FirstOperand(node) == <<get_nodes_block(node), src[node].ins[1]>>

\* gen_Phi transforming its operands itself instead of leaving them to the worklist
gen_Phi_requests_Recursive(node) == <<get_nodes_block(node)>> \o src[node].ins

gen_Phi_requests(node) == <<get_nodes_block(node)>>

\* gen_Phi enqueuing its first predecessor only
gen_Phi_EnqueueFirstOnly(node, imgs) ==
    LET gp   == mode_needs_gp_reg(get_irn_mode(node))
        mode == IF gp THEN mode_Iu ELSE get_irn_mode(node)
        phi  == [TN("Phi", mode, imgs[1], Placeholders(node), 0)
                   EXCEPT !.req = IF gp THEN "gp" ELSE "none"]
    IN  [Ret(<<phi>>, Fresh(1)) EXCEPT !.enq = SubSeq(be_enqueue_preds(node), 1, 1)]

\* gen_Phi without be_enqueue_preds
gen_Phi_NoEnqueue(node, imgs) ==
    LET gp   == mode_needs_gp_reg(get_irn_mode(node))
        mode == IF gp THEN mode_Iu ELSE get_irn_mode(node)
        phi  == [TN("Phi", mode, imgs[1], Placeholders(node), 0)
                   EXCEPT !.req = IF gp THEN "gp" ELSE "none"]
    IN  Ret(<<phi>>, Fresh(1))

\* the new Phi keeps the old arguments; req = the register requirement
gen_Phi(node, imgs) ==
    LET gp   == mode_needs_gp_reg(get_irn_mode(node))
        mode == IF gp THEN mode_Iu ELSE get_irn_mode(node)
        phi  == [TN("Phi", mode, imgs[1], Placeholders(node), 0)
                   EXCEPT !.req = IF gp THEN "gp" ELSE "none"]
    IN  [Ret(<<phi>>, Fresh(1)) EXCEPT !.enq = be_enqueue_preds(node)]

-----------------------------------------------------------------------------
(* Conv *)

gen_Conv_requests(node) == <<get_nodes_block(node), src[node].ins[1]>>

ConvFp(op, block, new_op, mode) == Ret(<<TN(op, mode, block, <<new_op>>, 0)>>, Fresh(1))

gen_Conv(node, imgs) ==
    LET block    == imgs[1]
        new_op   == imgs[2]
        src_mode == get_irn_mode(src[node].ins[1])
        dst_mode == get_irn_mode(node)
        src_bits == get_mode_size_bits(src_mode)
        dst_bits == get_mode_size_bits(dst_mode)
    IN  IF src_mode = dst_mode
        THEN Ret(<<>>, new_op)
        ELSE IF mode_is_float(src_mode) \/ mode_is_float(dst_mode)
        THEN IF ~(src_bits <= 64 /\ dst_bits <= 64)
             THEN Panic    \* assert(... && "quad FP not implemented")
             ELSE IF mode_is_float(src_mode)
             THEN IF mode_is_float(dst_mode)
                  THEN IF src_bits > dst_bits
                       THEN ConvFp("FsTOd", block, new_op, dst_mode)
                       ELSE ConvFp("FdTOs", block, new_op, dst_mode)
                  ELSE CASE dst_bits = 32 -> ConvFp("FsTOi", block, new_op, dst_mode)
                         [] dst_bits = 64 -> ConvFp("FdTOi", block, new_op, dst_mode)
                         [] OTHER -> Panic
             ELSE CASE dst_bits = 32 -> ConvFp("FiTOs", block, new_op, src_mode)
                    [] dst_bits = 64 -> ConvFp("FiTOd", block, new_op, src_mode)
                    [] OTHER -> Panic
        ELSE IF src_bits = dst_bits
        THEN Ret(<<>>, new_op)
        ELSE LET min_bits == IF src_bits < dst_bits THEN src_bits ELSE dst_bits
                 min_mode == IF src_bits < dst_bits THEN src_mode ELSE dst_mode
             IN  IF upper_bits_clean(new_op, min_mode)
                 THEN Ret(<<>>, new_op)
                 ELSE LET e == IF mode_is_signed(min_mode)
                               THEN gen_sign_extension(block, new_op, min_bits, 0)
                               ELSE gen_zero_extension(block, new_op, min_bits, 0)
                      IN  IF e.fatal THEN Panic ELSE Ret(e.new, e.res)

-----------------------------------------------------------------------------
(* Proj *)

gen_Proj_Load_requests(node) ==
    LET proj == get_Proj_proj(node)
    IN  IF proj = pn_Load_res \/ proj = pn_Load_M
        THEN <<get_Proj_pred(node)>>
        ELSE <<get_Proj_pred(node)>> \o be_duplicate_node_requests(node)

gen_Proj_Load(node, imgs) ==
    LET new_load == imgs[1]
        proj     == get_Proj_proj(node)
    IN  IF tgt[new_load].op = "Ld"
        THEN IF proj = pn_Load_res
             THEN Ret(<<new_rd_Proj(new_load, mode_Iu, pn_sparc_Ld_res)>>, Fresh(1))
             ELSE IF proj = pn_Load_M
                  THEN Ret(<<new_rd_Proj(new_load, mode_M, pn_sparc_Ld_M)>>, Fresh(1))
                  ELSE be_duplicate_node(node, Tail(imgs))
        ELSE Panic

gen_Proj_be_AddSP_requests(node) == <<get_Proj_pred(node)>>

gen_Proj_be_AddSP(node, imgs) ==
    LET new_pred == imgs[1]
        proj     == get_Proj_proj(node)
    IN  IF proj = pn_be_AddSP_sp
        THEN Ret(<<[new_rd_Proj(new_pred, mode_Iu, pn_sparc_SubSP_stack) EXCEPT !.reg = "sp"]>>,
                 Fresh(1))
        ELSE IF proj = pn_be_AddSP_res
             THEN Ret(<<new_rd_Proj(new_pred, mode_Iu, pn_sparc_SubSP_stack)>>, Fresh(1))
             ELSE IF proj = pn_be_AddSP_M
                  THEN Ret(<<new_rd_Proj(new_pred, mode_M, pn_sparc_SubSP_M)>>, Fresh(1))
                  ELSE Panic

gen_Proj_be_SubSP_requests(node) == <<get_Proj_pred(node)>>

gen_Proj_be_SubSP(node, imgs) ==
    LET new_pred == imgs[1]
        proj     == get_Proj_proj(node)
    IN  IF proj = pn_be_SubSP_sp
        THEN Ret(<<[new_rd_Proj(new_pred, mode_Iu, pn_sparc_AddSP_stack) EXCEPT !.reg = "sp"]>>,
                 Fresh(1))
        ELSE IF proj = pn_be_SubSP_M
             THEN Ret(<<new_rd_Proj(new_pred, mode_M, pn_sparc_AddSP_M)>>, Fresh(1))
             ELSE Panic

gen_Proj_Cmp(node) == Panic

gen_Proj_Div_requests(node) == <<get_Proj_pred(node)>>

is_sparc_Div(n) == tgt[n].op \in {"Div_reg", "Div_imm"}

\* gen_Proj_Div mapping every selector to the result of the sparc Div
gen_Proj_Div_AnySelector(node, imgs) ==
    LET new_pred == imgs[1]
        mode     == get_irn_mode(node)
    IN  IF is_sparc_Div(new_pred)
        THEN Ret(<<new_rd_Proj(new_pred, mode, pn_sparc_Div_res)>>, Fresh(1))
        ELSE Panic

gen_Proj_Div(node, imgs) ==
    LET new_pred == imgs[1]
        mode     == get_irn_mode(node)
        proj     == get_Proj_proj(node)
    IN  IF proj = pn_Div_res /\ is_sparc_Div(new_pred)
        THEN Ret(<<new_rd_Proj(new_pred, mode, pn_sparc_Div_res)>>, Fresh(1))
        ELSE Panic

gen_Proj_requests(node) ==
    LET pred == get_Proj_pred(node)
        proj == get_Proj_proj(node)
        op   == src[pred].op
    IN  CASE op = "Store"    -> IF proj = pn_Store_M THEN <<pred>> ELSE <<>>
          [] op = "Load"     -> gen_Proj_Load_requests(node)
          [] op = "be_SubSP" -> gen_Proj_be_SubSP_requests(node)
          [] op = "be_AddSP" -> gen_Proj_be_AddSP_requests(node)
          [] op = "Cmp"      -> <<>>
          [] op = "Div"      -> gen_Proj_Div_requests(node)
          [] op = "Start"    -> be_duplicate_node_requests(node)
          [] OTHER           -> IF mode_needs_gp_reg(get_irn_mode(node))
                                THEN <<pred>>
                                ELSE <<pred>> \o be_duplicate_node_requests(node)

gen_Proj(node, imgs) ==
    LET pred == get_Proj_pred(node)
        proj == get_Proj_proj(node)
        op   == src[pred].op
    IN  CASE op = "Store"    -> IF proj = pn_Store_M THEN Ret(<<>>, imgs[1]) ELSE Panic
          [] op = "Load"     -> gen_Proj_Load(node, imgs)
          [] op = "be_SubSP" -> gen_Proj_be_SubSP(node, imgs)
          [] op = "be_AddSP" -> gen_Proj_be_AddSP(node, imgs)
          [] op = "Cmp"      -> gen_Proj_Cmp(node)
          [] op = "Div"      -> gen_Proj_Div(node, imgs)
          [] op = "Start"    -> be_duplicate_node(node, imgs)
          [] OTHER           ->
               IF mode_needs_gp_reg(get_irn_mode(node))
               THEN Ret(<<[new_rd_Proj(imgs[1], mode_Iu, get_Proj_proj(node)) EXCEPT !.nr = node]>>,
                        Fresh(1))
               ELSE be_duplicate_node(node, Tail(imgs))

-----------------------------------------------------------------------------
(* The dispatch table: sparc_register_transformers, on top of the defaults *)
(* of be_start_transform_setup                                             *)

Registered == {"Abs", "Add", "And", "be_AddSP", "be_Call", "be_Copy", "be_FrameAddr",
               "be_SubSP", "Cmp", "Cond", "Const", "Conv", "Div", "Eor", "Jmp", "Load",
               "Minus", "Mul", "Mulh", "Not", "Or", "Phi", "Proj", "Shl", "Shr", "Shrs",
               "Store", "Sub", "SymConst", "Unknown", "sparc_Save"}

DefaultDuplicated == {"Start", "NoMem", "Bad", "Sync", "Pin"}

Requests(node) ==
    LET op == src[node].op
    IN  CASE op = "Abs"          -> gen_Abs_requests(node)
          [] op = "Add"          -> gen_Add_requests(node)
          [] op = "And"          -> gen_And_requests(node)
          [] op = "be_AddSP"     -> gen_be_AddSP_requests(node)
          [] op = "be_Call"      -> gen_be_Call_requests(node)
          [] op = "be_Copy"      -> gen_be_Copy_requests(node)
          [] op = "be_FrameAddr" -> gen_be_FrameAddr_requests(node)
          [] op = "be_SubSP"     -> gen_be_SubSP_requests(node)
          [] op = "Cmp"          -> gen_Cmp_requests(node)
          [] op = "Cond"         -> gen_Cond_requests(node)
          [] op = "Const"        -> gen_Const_requests(node)
          [] op = "Conv"         -> gen_Conv_requests(node)
          [] op = "Div"          -> gen_Div_requests(node)
          [] op = "Eor"          -> gen_Xor_requests(node)
          [] op = "Jmp"          -> gen_Jmp_requests(node)
          [] op = "Load"         -> gen_Load_requests(node)
          [] op = "Minus"        -> gen_Minus_requests(node)
          [] op = "Mul"          -> gen_Mul_requests(node)
          [] op = "Mulh"         -> gen_Mulh_requests(node)
          [] op = "Not"          -> gen_Not_requests(node)
          [] op = "Or"           -> gen_Or_requests(node)
          [] op = "Phi"          -> gen_Phi_requests(node)
          [] op = "Proj"         -> gen_Proj_requests(node)
          [] op = "Shl"          -> gen_Shl_requests(node)
          [] op = "Shr"          -> gen_Shr_requests(node)
          [] op = "Shrs"         -> gen_Shra_requests(node)
          [] op = "Store"        -> gen_Store_requests(node)
          [] op = "Sub"          -> gen_Sub_requests(node)
          [] op = "SymConst"     -> gen_SymConst_requests(node)
          [] op = "Unknown"      -> gen_Unknown_requests(node)
          [] op = "Block"        -> transform_block_requests(node)
          [] op \in DefaultDuplicated \cup {"sparc_Save"} -> be_duplicate_node_requests(node)
          [] OTHER               -> <<>>

Handler(node, imgs) ==
    LET op == src[node].op
    IN  CASE op = "Abs"          -> gen_Abs(node, imgs)
          [] op = "Add"          -> gen_Add(node, imgs)
          [] op = "And"          -> gen_And(node, imgs)
          [] op = "be_AddSP"     -> gen_be_AddSP(node, imgs)
          [] op = "be_Call"      -> gen_be_Call(node, imgs)
          [] op = "be_Copy"      -> gen_be_Copy(node, imgs)
          [] op = "be_FrameAddr" -> gen_be_FrameAddr(node, imgs)
          [] op = "be_SubSP"     -> gen_be_SubSP(node, imgs)
          [] op = "Cmp"          -> gen_Cmp(node, imgs)
          [] op = "Cond"         -> gen_Cond(node, imgs)
          [] op = "Const"        -> gen_Const(node, imgs)
          [] op = "Conv"         -> gen_Conv(node, imgs)
          [] op = "Div"          -> gen_Div(node, imgs)
          [] op = "Eor"          -> gen_Xor(node, imgs)
          [] op = "Jmp"          -> gen_Jmp(node, imgs)
          [] op = "Load"         -> gen_Load(node, imgs)
          [] op = "Minus"        -> gen_Minus(node, imgs)
          [] op = "Mul"          -> gen_Mul(node, imgs)
          [] op = "Mulh"         -> gen_Mulh(node, imgs)
          [] op = "Not"          -> gen_Not(node, imgs)
          [] op = "Or"           -> gen_Or(node, imgs)
          [] op = "Phi"          -> gen_Phi(node, imgs)
          [] op = "Proj"         -> gen_Proj(node, imgs)
          [] op = "Shl"          -> gen_Shl(node, imgs)
          [] op = "Shr"          -> gen_Shr(node, imgs)
          [] op = "Shrs"         -> gen_Shra(node, imgs)
          [] op = "Store"        -> gen_Store(node, imgs)
          [] op = "Sub"          -> gen_Sub(node, imgs)
          [] op = "SymConst"     -> gen_SymConst(node, imgs)
          [] op = "Unknown"      -> gen_Unknown(node, imgs)
          [] op = "Block"        -> transform_block(node, imgs)
          [] op \in DefaultDuplicated \cup {"sparc_Save"} -> be_duplicate_node(node, imgs)
          [] OTHER               -> Panic

-----------------------------------------------------------------------------
(* Source graphs.  Every graph starts with the same six nodes:            *)
(*   1 the start block, 2 Start, 3 the initial memory, 4 the argument     *)
(*   tuple, 5 the first argument x, 6 the frame/stack pointer.            *)

MaxCases == 4

ConstVals == {-4097, -4096, 5, 4095, 4096, 9000}
SelVals == {0, 2, 5, 7, 8, 10}

PrefixIds == [block |-> 1, start |-> 2, mem |-> 3, args |-> 4, x |-> 5, sp |-> 6]
StartBlock == PrefixIds.block
StartNode == PrefixIds.start
InitMem == PrefixIds.mem
Args == PrefixIds.args
ArgX == PrefixIds.x
StackPtr == PrefixIds.sp

Prefix(mx) ==
    <<SN("Block", "BB", 0, <<>>, 0),
      SN("Start", mode_T, StartBlock, <<>>, 0),
      SN("Proj", mode_M, StartBlock, <<StartNode>>, 0),
      SN("Proj", mode_T, StartBlock, <<StartNode>>, 2),
      SN("Proj", mx, StartBlock, <<Args>>, 0),
      SN("Proj", "P", StartBlock, <<StartNode>>, 1)>>

Graph(nodes, rts) == [nodes |-> nodes, roots |-> rts]

BinopOps == {"Add", "Sub", "Mul", "Mulh", "And", "Or", "Eor", "Shl", "Shr", "Shrs"}

\* 7, 8: two Consts; 9: the binary operator on two of x, Const 7, Const 8
BinopGraph(op, a, b, v1, v2) ==
    Graph(Prefix("Is") \o
          <<SN("Const", "Is", StartBlock, <<>>, v1),
            SN("Const", "Is", StartBlock, <<>>, v2),
            SN(op, "Is", StartBlock, <<a, b>>, 0)>>,
          <<9>>)

\* 9: a Div, 10: its result Proj
DivGraph(a, b, v1, v2, m) ==
    Graph(Prefix("Is") \o
          <<SN("Const", "Is", StartBlock, <<>>, v1),
            SN("Const", "Is", StartBlock, <<>>, v2),
            SN("Div", mode_T, StartBlock, <<InitMem, a, b>>, 0),
            SN("Proj", m, StartBlock, <<9>>, pn_Div_res)>>,
          <<10>>)

OperandChoices ==
    {<<ArgX, 7, v, 0>> : v \in ConstVals} \cup
    {<<7, ArgX, v, 0>> : v \in ConstVals} \cup
    {<<7, 8, v, w>> : v \in ConstVals, w \in ConstVals} \cup
    {<<ArgX, ArgX, 0, 0>>}

BinopGraphs ==
    {BinopGraph(op, c[1], c[2], c[3], c[4]) : op \in BinopOps, c \in OperandChoices} \cup
    {DivGraph(c[1], c[2], c[3], c[4], m) : c \in OperandChoices, m \in {"Is", "Iu"}}

\* 7: a loop-carried Phi(x, 9); 8: Const; 9: the operator on the Phi
PhiGraph(op, m, v, rts) ==
    Graph(Prefix(m) \o
          <<SN("Phi", m, StartBlock, <<ArgX, 9>>, 0),
            SN("Const", m, StartBlock, <<>>, v),
            SN(op, m, StartBlock, <<7, 8>>, 0)>>,
          rts)

PhiGraphs ==
    {PhiGraph(op, m, v, rts) : op \in {"Add", "Mul", "Sub"}, m \in {"Is", "Hu", "P"},
                               v \in {1, 9000}, rts \in {<<9>>, <<7>>, <<7, 9>>}}

\* 7: the Cond on x; 8 .. 7+k: its Projs; 8+k: the block they enter; 9+k: a Jmp in it
SwitchGraph(sels, default, rts) ==
    LET k == Len(sels)
    IN  Graph(Prefix("Is") \o
              <<SN("Cond", mode_T, StartBlock, <<ArgX>>, default)>> \o
              [i \in 1..k |-> SN("Proj", mode_X, StartBlock, <<7>>, sels[i])] \o
              <<SN("Block", "BB", 0, [i \in 1..k |-> 7 + i], 0),
                SN("Jmp", mode_X, 8 + k, <<>>, 0)>>,
              rts)

Increasing(seq) == \A i \in 1..(Len(seq) - 1) : seq[i] < seq[i + 1]

SelSeqs == {seq \in UNION {[1..k -> SelVals] : k \in 2..MaxCases} : Increasing(seq)}

SwitchGraphs ==
    UNION {{SwitchGraph(sels, sels[d], <<9 + Len(sels)>>) : d \in 1..Len(sels)} : sels \in SelSeqs} \cup
    {SwitchGraph(sels, sels[1], <<7, 9 + Len(sels)>>) : sels \in SelSeqs}

\* 7: a be_Copy of x
CopyGraphs ==
    {Graph(Prefix(m) \o <<SN("be_Copy", m, StartBlock, <<ArgX>>, 0)>>, <<7>>) :
        m \in {"Is", "Iu", "Hs", "P", "F"}}

\* 7: the size; 8: be_AddSP or be_SubSP of (stack pointer, size); 9: one Proj of it
StackGraphs ==
    {Graph(Prefix("Is") \o
           <<SN("Const", "Iu", StartBlock, <<>>, v),
             SN(op, mode_T, StartBlock, <<StackPtr, 7>>, 0),
             SN("Proj", IF pn = 2 \/ (op = "be_SubSP" /\ pn = 1) THEN mode_M ELSE "P",
                StartBlock, <<8>>, pn)>>,
           <<9>>) :
        v \in {64, 8192}, op \in {"be_AddSP", "be_SubSP"}, pn \in 0..3}

\* 7: a second argument; 8: Cmp(x, 7); 9: the Proj of the Cmp; 10: Cond; 11, 12: its Projs
CmpGraphs ==
    {Graph(Prefix(m) \o
           <<SN("Proj", m, StartBlock, <<Args>>, 1),
             SN("Cmp", mode_T, StartBlock, <<ArgX, 7>>, 0),
             SN("Proj", mode_b, StartBlock, <<8>>, pnc),
             SN("Cond", mode_T, StartBlock, <<9>>, 0),
             SN("Proj", mode_X, StartBlock, <<10>>, 0),
             SN("Proj", mode_X, StartBlock, <<10>>, 1)>>,
           rts) :
        m \in {"Bs", "Bu", "Hs", "Hu", "Is", "Iu", "P", "Ls", "Lu", "F"}, pnc \in {2, 5},
        rts \in {<<11, 12>>, <<8>>, <<9>>}}

\* 7: a Const or an Unknown
ConstGraphs ==
    {Graph(Prefix("Is") \o <<SN("Const", m, StartBlock, <<>>, v)>>, <<7>>) :
        m \in {"Is", "Iu"}, v \in ConstVals} \cup
    {Graph(Prefix("Is") \o <<SN("Unknown", m, StartBlock, <<>>, 0)>>, <<7>>) :
        m \in {"Is", "P", "F", mode_M}}

\* 7: a binary operator of a floating-point mode on (x, x)
\* or 7: a Div of floating-point operands, 8: its result Proj
\* or 7: a floating-point Const
FloatGraphs ==
    {Graph(Prefix(m) \o <<SN(op, m, StartBlock, <<ArgX, ArgX>>, 0)>>, <<7>>) :
        op \in BinopOps, m \in {"F", "D"}} \cup
    {Graph(Prefix(m) \o
           <<[SN("Div", mode_T, StartBlock, <<InitMem, ArgX, ArgX>>, 0) EXCEPT !.amode = m],
             SN("Proj", m, StartBlock, <<7>>, pn_Div_res)>>,
           <<8>>) : m \in {"F", "D"}} \cup
    {Graph(Prefix(m) \o <<SN("Const", m, StartBlock, <<>>, 1)>>, <<7>>) : m \in {"F", "D"}}

\* 7: a unary operator on x
UnaryGraphs ==
    {Graph(Prefix(m) \o <<SN(op, m, StartBlock, <<ArgX>>, 0)>>, <<7>>) :
        op \in {"Abs", "Not", "Minus"}, m \in {"Is", "Hs", "Iu", "P", "F", "D"}}

\* 7: a Load of mode m from the stack pointer, a Store of x there or a Div of
\* (x, x); 8: one Proj of it
MemGraphs ==
    {Graph(Prefix("Is") \o
           <<[SN("Load", mode_T, StartBlock, <<InitMem, StackPtr>>, 0) EXCEPT !.amode = m],
             SN("Proj", IF pn = pn_Load_M THEN mode_M ELSE IF pn = pn_Load_res THEN m ELSE mode_X,
                StartBlock, <<7>>, pn)>>,
           rts) :
        m \in {"Is", "Bu", "F"}, pn \in 0..4, rts \in {<<8>>, <<7>>}} \cup
    {Graph(Prefix(m) \o
           <<SN("Store", mode_T, StartBlock, <<InitMem, StackPtr, ArgX>>, 0),
             SN("Proj", IF pn = pn_Store_M THEN mode_M ELSE mode_X, StartBlock, <<7>>, pn)>>,
           rts) :
        m \in {"Is", "F"}, pn \in 0..2, rts \in {<<8>>, <<7>>}} \cup
    {Graph(Prefix("Is") \o
           <<SN("Div", mode_T, StartBlock, <<InitMem, ArgX, ArgX>>, 0),
             SN("Proj", IF pn = pn_Div_res THEN "Is" ELSE IF pn = 0 THEN mode_M ELSE mode_X,
                StartBlock, <<7>>, pn)>>,
           <<8>>) : pn \in 0..4}

\* 7: a Conv of x from mode ms to mode md
ConvGraphs ==
    {Graph(Prefix(ms) \o <<SN("Conv", md, StartBlock, <<ArgX>>, 0)>>, <<7>>) :
        ms \in {"Bs", "Bu", "Hs", "Hu", "Is", "Iu", "F", "D", "E"},
        md \in {"Bs", "Bu", "Hs", "Hu", "Is", "Iu", "F", "D", "E"}}

Scenarios ==
    BinopGraphs \cup PhiGraphs \cup SwitchGraphs \cup CopyGraphs \cup StackGraphs
    \cup CmpGraphs \cup ConstGraphs \cup FloatGraphs \cup UnaryGraphs \cup MemGraphs
    \cup ConvGraphs

-----------------------------------------------------------------------------
(* The pass: be_transform_graph, be_transform_node and the fixup *)

NoMemNode == TN("NoMem", mode_M, 0, <<>>, 0)

-----------------------------------------------------------------------------
(***************************************************************************)
(* The SPARC instructions of the Abs sequence on 32-bit registers.  A      *)
(* register is its 32 bits, bit 0 the least significant; a signed number   *)
(* is held in two's complement.                                            *)
(***************************************************************************)
WordBits == 32

BitIdx == 0 .. (WordBits - 1)

\* bit i of the natural number v
BitOf(v, i) == (v \div (2 ^ i)) % 2

\* the register holding the signed number x
Word(x) ==
    IF x >= 0
    THEN [i \in BitIdx |-> IF i = WordBits - 1 THEN 0 ELSE BitOf(x, i)]
    ELSE [i \in BitIdx |-> IF i = WordBits - 1 THEN 1 ELSE 1 - BitOf(0 - (x + 1), i)]

RECURSIVE Magnitude(_, _)
\* the number held in bits 0 .. i of w, bit by bit
Magnitude(w, i) == IF i < 0 THEN 0 ELSE w[i] * (2 ^ i) + Magnitude(w, i - 1)

\* the signed number held in register w
Value(w) ==
    IF w[WordBits - 1] = 0
    THEN Magnitude(w, WordBits - 2)
    ELSE (0 - Magnitude([i \in BitIdx |-> 1 - w[i]], WordBits - 2)) - 1

\* sra: arithmetic shift right by k, the sign bit is shifted in
sparc_sra(w, k) == [i \in BitIdx |-> IF i + k <= WordBits - 1 THEN w[i + k] ELSE w[WordBits - 1]]

\* xor: bitwise exclusive or
sparc_xor(w, v) == [i \in BitIdx |-> (w[i] + v[i]) % 2]

RECURSIVE Borrow(_, _, _)
\* the borrow into bit i of l - r
Borrow(l, r, i) ==
    IF i = 0 THEN 0
    ELSE IF l[i - 1] - r[i - 1] - Borrow(l, r, i - 1) < 0 THEN 1 ELSE 0

\* sub: l - r modulo 2^32
sparc_sub(l, r) == [i \in BitIdx |-> (l[i] - r[i] - Borrow(l, r, i) + 2) % 2]

RECURSIVE Eval(_, _, _)
\* the register the target node t computes when the target node operand
\* holds the register w
Eval(t, operand, w) ==
    IF t = operand THEN w
    ELSE CASE tgt[t].op = "Mov_reg" -> Eval(tgt[t].ins[1], operand, w)
           [] tgt[t].op = "Sra_imm" -> sparc_sra(Eval(tgt[t].ins[1], operand, w), tgt[t].imm)
           [] tgt[t].op = "Xor_reg" -> sparc_xor(Eval(tgt[t].ins[1], operand, w), Eval(tgt[t].ins[2], operand, w))
           [] tgt[t].op = "Sub_reg" -> sparc_sub(Eval(tgt[t].ins[1], operand, w), Eval(tgt[t].ins[2], operand, w))
           [] OTHER                 -> w

\* the register values the emitted code is executed on
RegisterValues ==
    {0, 1, 0 - 1, 2, 0 - 2, 5, 0 - 5, 127, 0 - 128, 4096, 0 - 4096,
     65535, 0 - 65536, INT_MAX, 0 - INT_MAX, INT_MIN}

Init ==
    \E g \in Scenarios :
        /\ src = g.nodes
        /\ src0 = g.nodes
        /\ roots = g.roots
        /\ worklist = g.roots
        /\ tgt = <<NoMemNode>>
        /\ memo = [n \in DOMAIN g.nodes |-> 0]
        /\ stack = <<>>
        /\ phase = "transform"
        /\ calls = [n \in DOMAIN g.nodes |-> 0]
        /\ rets = [n \in DOMAIN g.nodes |-> {}]
        /\ order = <<>>
        /\ run = <<>>

Frame(node) == [node |-> node, i |-> 1, imgs |-> <<>>]

Top == stack[Len(stack)]

\* the caller of the returning call gets `res` as the result of its pending request
PopWith(res) ==
    LET rest == SubSeq(stack, 1, Len(stack) - 1)
    IN  IF rest = <<>>
        THEN rest
        ELSE [rest EXCEPT ![Len(rest)] = [@ EXCEPT !.i = @ + 1, !.imgs = Append(@, res)]]

\* the driver takes a node from the worklist; the node is already transformed
DequeueHit ==
    /\ phase = "transform" /\ stack = <<>> /\ worklist # <<>>
    /\ memo[Head(worklist)] # 0
    /\ worklist' = Tail(worklist)
    /\ rets' = [rets EXCEPT ![Head(worklist)] = @ \cup {memo[Head(worklist)]}]
    /\ order' = Append(order, <<"hit", Head(worklist)>>)
    /\ UNCHANGED <<run, src, src0, roots, tgt, memo, stack, phase, calls>>

\* the driver takes a node from the worklist; its handler is invoked
DequeueMiss ==
    /\ phase = "transform" /\ stack = <<>> /\ worklist # <<>>
    /\ memo[Head(worklist)] = 0
    /\ worklist' = Tail(worklist)
    /\ stack' = <<Frame(Head(worklist))>>
    /\ calls' = [calls EXCEPT ![Head(worklist)] = @ + 1]
    /\ order' = Append(order, <<"visit", Head(worklist)>>)
    /\ UNCHANGED <<run, src, src0, roots, tgt, memo, phase, rets>>

\* be_transform_node called by a handler: the memo has the node
RequestHit ==
    /\ phase = "transform" /\ stack # <<>>
    /\ Top.i <= Len(Requests(Top.node))
    /\ LET r == Requests(Top.node)[Top.i]
       IN  /\ memo[r] # 0
           /\ stack' = [stack EXCEPT ![Len(stack)] =
                           [@ EXCEPT !.i = @ + 1, !.imgs = Append(@, memo[r])]]
           /\ rets' = [rets EXCEPT ![r] = @ \cup {memo[r]}]
           /\ order' = Append(order, <<"hit", r>>)
    /\ UNCHANGED <<run, src, src0, roots, tgt, memo, worklist, phase, calls>>

\* be_transform_node called by a handler: the handler of the node is invoked
RequestMiss ==
    /\ phase = "transform" /\ stack # <<>>
    /\ Top.i <= Len(Requests(Top.node))
    /\ LET r == Requests(Top.node)[Top.i]
       IN  /\ memo[r] = 0
           /\ stack' = Append(stack, Frame(r))
           /\ calls' = [calls EXCEPT ![r] = @ + 1]
           /\ order' = Append(order, <<"visit", r>>)
    /\ UNCHANGED <<run, src, src0, roots, tgt, memo, worklist, phase, rets>>

\* a handler has all its operands: it builds its nodes, and be_transform_node
\* installs the result in the memo
Return ==
    /\ phase = "transform" /\ stack # <<>>
    /\ Top.i > Len(Requests(Top.node))
    /\ \E h \in {Handler(Top.node, Top.imgs)} :
           /\ ~h.fatal
           /\ tgt' = tgt \o h.new
           /\ memo' = [memo EXCEPT ![Top.node] = h.res]
           /\ src' = h.src
           /\ worklist' = worklist \o h.enq
           /\ rets' = [rets EXCEPT ![Top.node] = @ \cup {h.res}]
           /\ stack' = PopWith(h.res)
           /\ order' = Append(order, <<"install", Top.node>>)
    /\ UNCHANGED <<run, src0, roots, phase, calls>>

\* panic(): the pass aborts
Fatal ==
    /\ phase = "transform" /\ stack # <<>>
    /\ Top.i > Len(Requests(Top.node))
    /\ Handler(Top.node, Top.imgs).fatal
    /\ phase' = "fatal"
    /\ UNCHANGED <<run, src, src0, roots, tgt, memo, worklist, stack, calls, rets, order>>

\* the worklist is empty: the fixup begins
StartFixup ==
    /\ phase = "transform" /\ stack = <<>> /\ worklist = <<>>
    /\ phase' = "fixup"
    /\ UNCHANGED <<run, src, src0, roots, tgt, memo, worklist, stack, calls, rets, order>>

\* a slot that still holds a source node which has an image
Stale(t, i) == tgt[t].ins[i] < 0 /\ memo[0 - tgt[t].ins[i]] # 0

\* fix_loops on one target node: every predecessor that has an image is replaced by it
FixLoops ==
    /\ phase = "fixup"
    /\ \E t \in 1..Len(tgt) :
          /\ \E i \in 1..Len(tgt[t].ins) : Stale(t, i)
          /\ tgt' = [tgt EXCEPT ![t].ins =
                        [i \in 1..Len(tgt[t].ins) |->
                            IF Stale(t, i) THEN memo[0 - tgt[t].ins[i]] ELSE tgt[t].ins[i]]]
          /\ order' = Append(order, <<"rewire", t>>)
    /\ UNCHANGED <<run, src, src0, roots, memo, worklist, stack, phase, calls, rets>>

\* the pass returns
Finish ==
    /\ phase = "fixup"
    /\ \A t \in 1..Len(tgt) : \A i \in 1..Len(tgt[t].ins) : ~Stale(t, i)
    /\ phase' = "done"
    /\ UNCHANGED <<run, src, src0, roots, tgt, memo, worklist, stack, calls, rets, order>>

\* the emitted code of a lowered integer Abs is executed with the register
\* value x in its operand
Execute ==
    /\ phase = "done" /\ run = <<>>
    /\ \E n \in {a \in Nodes : src[a].op = "Abs" /\ ~mode_is_float(src[a].mode) /\ memo[a] # 0},
          x \in RegisterValues :
          run' = <<[node   |-> n,
                    x      |-> x,
                    result |-> Value(Eval(memo[n], memo[src[n].ins[1]], Word(x)))]>>
    /\ UNCHANGED <<src, src0, roots, tgt, memo, worklist, stack, phase, calls, rets, order>>

Next ==
    \/ DequeueHit
    \/ DequeueMiss
    \/ RequestHit
    \/ RequestMiss
    \/ Return
    \/ Fatal
    \/ StartFixup
    \/ FixLoops
    \/ Finish
    \/ Execute

Spec == Init /\ [][Next]_vars

\* the pass is a sequential program: while a step is possible, one is taken
FairSpec == Spec /\ WF_vars(Next)

-----------------------------------------------------------------------------
(* Properties *)

Events == {order[k] : k \in 1..Len(order)}

Transformed(n) == memo[n] # 0

\* C1: the handler of a source node is invoked at most once, and every
\* be_transform_node request for the node returns the same target node, also
\* when the node is reached again through a Phi cycle or is the operand of
\* several consumers.
C1_TransformedOnce ==
    \A n \in Nodes : calls[n] <= 1 /\ Cardinality(rets[n]) <= 1

\* a loop-carried Phi that was installed and then requested again by the
\* operator on the cycle, and an operand shared by two consumers
C1_Witness ==
    /\ phase = "done"
    /\ \E p \in Nodes :
          /\ src[p].op = "Phi" /\ calls[p] = 1
          /\ <<"hit", p>> \in Events
          /\ \E u \in Nodes : u \in out_edges(p) /\ p \in out_edges(u) /\ Transformed(u)
          /\ <<"hit", src[p].ins[1]>> \in Events \/ <<"hit", src[p].block>> \in Events

\* C2: when the pass has returned, every predecessor slot of every target Phi
\* holds the memo image of the source predecessor gen_Phi copied into it, and
\* no target Phi has a source node as predecessor.
C2_PhiRewired ==
    phase = "done" =>
        /\ \A p \in Nodes :
              (src[p].op = "Phi" /\ Transformed(p)) =>
                  /\ Len(tgt[memo[p]].ins) = Len(src[p].ins)
                  /\ \A i \in 1..Len(src[p].ins) :
                        /\ Transformed(src[p].ins[i])
                        /\ tgt[memo[p]].ins[i] = memo[src[p].ins[i]]
        /\ \A t \in 1..Len(tgt) :
              tgt[t].op = "Phi" => \A i \in 1..Len(tgt[t].ins) : tgt[t].ins[i] > 0

\* the pass has returned and has rewired a Phi
C2_Witness ==
    /\ phase = "done"
    /\ \E p \in Nodes :
          /\ src[p].op = "Phi" /\ Transformed(p)
          /\ <<"rewire", memo[p]>> \in Events

\* the 13-bit signed immediate field
Simm13(v) == v \in -4096..4095

Encodable(n) == src[n].op = "Const" /\ Simm13(src[n].val)

BinaryOps == BinopOps \cup {"Div"}

Commutative(op) == op \in {"Add", "Mul", "Mulh", "And", "Or", "Eor"}

ImmForm(op) ==
    CASE op = "Add" -> "Add_imm" [] op = "Sub" -> "Sub_imm" [] op = "Mul" -> "Mul_imm"
      [] op = "Mulh" -> "Mulh_imm" [] op = "Div" -> "Div_imm" [] op = "And" -> "And_imm"
      [] op = "Or" -> "Or_imm" [] op = "Eor" -> "Xor_imm" [] op = "Shl" -> "Sll_imm"
      [] op = "Shr" -> "Slr_imm" [] op = "Shrs" -> "Sra_imm"

RegForm(op) ==
    CASE op = "Add" -> "Add_reg" [] op = "Sub" -> "Sub_reg" [] op = "Mul" -> "Mul_reg"
      [] op = "Mulh" -> "Mulh_reg" [] op = "Div" -> "Div_reg" [] op = "And" -> "And_reg"
      [] op = "Or" -> "Or_reg" [] op = "Eor" -> "Xor_reg" [] op = "Shl" -> "Sll_reg"
      [] op = "Shr" -> "Slr_reg" [] op = "Shrs" -> "Sra_reg"

\* the node the binary-operator helper built for a transformed source operator
\* (gen_Mul and gen_Mulh return a Proj of it)
HelperNode(n) == IF src[n].op \in {"Mul", "Mulh"} THEN tgt[memo[n]].ins[1] ELSE memo[n]

\* the transformed operators that went through gen_helper_binop (a Mul of a
\* floating-point mode goes through gen_helper_binfpop)
TransformedBinops ==
    {n \in Nodes : /\ src[n].op \in BinaryOps /\ Transformed(n)
                   /\ ~(src[n].op = "Mul" /\ mode_is_float(src[n].mode))}

\* C3: the binary-operator helper builds the _imm form from (image of left,
\* value of right) when the right operand is immediate-encodable; otherwise,
\* for a COMMUTATIVE operator with an immediate-encodable left operand, the
\* _imm form from (image of right, value of left); otherwise the _reg form
\* from (image of left, image of right).  A non-commutative operator never
\* folds a left-hand Const.
C3_BinopForm ==
    \A n \in TransformedBinops :
        LET t == tgt[HelperNode(n)]
            l == get_binop_left(n)
            r == get_binop_right(n)
        IN  IF Encodable(r)
            THEN /\ t.op = ImmForm(src[n].op)
                 /\ Transformed(l) /\ t.ins = <<memo[l]>>
                 /\ t.imm = src[r].val
            ELSE IF Commutative(src[n].op) /\ Encodable(l)
                 THEN /\ t.op = ImmForm(src[n].op)
                      /\ Transformed(r) /\ t.ins = <<memo[r]>>
                      /\ t.imm = src[l].val
                 ELSE /\ t.op = RegForm(src[n].op)
                      /\ Transformed(l) /\ Transformed(r)
                      /\ t.ins = <<memo[l], memo[r]>>

\* Add(Const 5, x) has become Add_imm(image of x, 5)
C3_Witness ==
    \E n \in TransformedBinops :
        /\ src[n].op = "Add"
        /\ src[get_binop_left(n)].op = "Const" /\ src[get_binop_left(n)].val = 5
        /\ src[get_binop_right(n)].op = "Proj"
        /\ tgt[memo[n]].op = "Add_imm" /\ tgt[memo[n]].imm = 5
        /\ tgt[memo[n]].ins = <<memo[get_binop_right(n)]>>

\* a Const outside the immediate range that is an operand of a binary operator
BigConstOperands(n) ==
    {c \in {get_binop_left(n), get_binop_right(n)} : src[c].op = "Const" /\ ~Simm13(src[c].val)}

\* the Const has become LoImm(HiImm(v), v)
Materialised(c) ==
    /\ Transformed(c)
    /\ tgt[memo[c]].op = "LoImm" /\ tgt[memo[c]].imm = src[c].val
    /\ Len(tgt[memo[c]].ins) = 1
    /\ tgt[tgt[memo[c]].ins[1]].op = "HiImm" /\ tgt[tgt[memo[c]].ins[1]].imm = src[c].val

ImmLiteralsInRange ==
    \A n \in TransformedBinops :
        tgt[HelperNode(n)].op = ImmForm(src[n].op) => Simm13(tgt[HelperNode(n)].imm)

\* C4 as claimed: every _imm form the helper creates carries a literal in
\* [-4096, 4095], and a Const operand outside that range is materialised as a
\* HiImm/LoImm pair that feeds a _reg form.
C4_Original ==
    /\ ImmLiteralsInRange
    /\ \A n \in TransformedBinops : \A c \in BigConstOperands(n) :
          /\ Materialised(c)
          /\ tgt[HelperNode(n)].op = RegForm(src[n].op)
          /\ \E i \in 1..Len(tgt[HelperNode(n)].ins) : tgt[HelperNode(n)].ins[i] = memo[c]

\* C4 as amended: every _imm form the helper creates carries a literal in
\* [-4096, 4095], and a Const operand outside that range is never the literal
\* but is materialised as a HiImm/LoImm pair that feeds a register operand of
\* the operator's target node (the _reg form, or the _imm form when the other
\* operand is an immediate-encodable Const).
C4_ImmRange ==
    /\ ImmLiteralsInRange
    /\ \A n \in TransformedBinops : \A c \in BigConstOperands(n) :
          /\ Materialised(c)
          /\ \E i \in 1..Len(tgt[HelperNode(n)].ins) : tgt[HelperNode(n)].ins[i] = memo[c]

\* an operator on (Const 4096, Const 4095): the literal is 4095, the register
\* operand the LoImm of 4096
C4_Witness ==
    \E n \in TransformedBinops :
        /\ src[get_binop_left(n)].op = "Const" /\ src[get_binop_left(n)].val = 4096
        /\ src[get_binop_right(n)].op = "Const" /\ src[get_binop_right(n)].val = 4095
        /\ tgt[HelperNode(n)].imm = 4095
        /\ tgt[tgt[HelperNode(n)].ins[1]].op = "LoImm"

\* a general-purpose mode: integer or reference
GpMode(m) == m \in IntModes \cup {"P"}

\* C5: after the pass, every target node that produces a general-purpose
\* (integer or reference) value has mode Iu; this includes the copy of a
\* be_Copy, the result Proj of a Div and the Projs duplicated from Start or
\* other predecessors.
C5_ModeCanonical ==
    phase = "done" => \A t \in 1..Len(tgt) : GpMode(tgt[t].mode) => tgt[t].mode = "Iu"

\* the handler of the node has run to its end: it installed a result or it panicked
HandlerRan(n) == Transformed(n) \/ (phase = "fatal" /\ stack # <<>> /\ Top.node = n)

\* the lowered switches
SwitchConds ==
    {c \in Nodes : src[c].op = "Cond" /\ src[src[c].ins[1]].mode # "b" /\ Transformed(c)}

SetMin(S) == CHOOSE x \in S : \A y \in S : x <= y

SetMax(S) == CHOOSE x \in S : \A y \in S : x >= y

\* C6 as claimed: after the lowering of a switch Cond, every integer in
\* [0, n_projs) is the selector of exactly one Proj of the Cond (no gaps, no
\* duplicates), n_projs being the value stored in the SwitchJmp.
C6_Original ==
    \A c \in SwitchConds :
        LET n_projs == tgt[memo[c]].imm
        IN  /\ \A p \in CondProjs(c) : src[p].val \in 0..(n_projs - 1)
            /\ \A k \in 0..(n_projs - 1) :
                  Cardinality({p \in CondProjs(c) : src[p].val = k}) = 1

\* C6 as amended: after the lowering of a switch Cond, the selectors of its
\* Projs lie in [0, n_projs), the smallest is 0 and the largest n_projs - 1,
\* and Projs with different source selectors have different selectors; the
\* gaps between the source selectors remain.
C6_SelectorsInRange ==
    \A c \in SwitchConds :
        LET n_projs == tgt[memo[c]].imm
        IN  /\ \A p \in CondProjs(c) : src[p].val \in 0..(n_projs - 1)
            /\ \E p \in CondProjs(c) : src[p].val = 0
            /\ \E p \in CondProjs(c) : src[p].val = n_projs - 1
            /\ \A p, q \in CondProjs(c) :
                  /\ src0[p].val # src0[q].val => src[p].val # src[q].val
                  /\ src[p].val - src[q].val = src0[p].val - src0[q].val

\* the switch on {5, 7, 8, 10} is lowered: six table entries, selectors 0, 2, 3, 5
C6_Witness ==
    \E c \in SwitchConds :
        /\ {src0[p].val : p \in CondProjs(c)} = {5, 7, 8, 10}
        /\ {src[p].val : p \in CondProjs(c)} = {0, 2, 3, 5}
        /\ tgt[memo[c]].imm = 6

\* the constant the SwitchJmp's Sub subtracts from the selector
SwitchTranslation(c) == tgt[tgt[tgt[memo[c]].ins[1]].ins[2]].imm

\* the switches whose Projs are at least one case Proj and the default Proj
SwitchesWithDefault ==
    {c \in SwitchConds :
        /\ \E p \in CondProjs(c) : src0[p].val = src0[c].val
        /\ \E p \in CondProjs(c) : src0[p].val # src0[c].val}

\* C7 as claimed: translation is the smallest case selector, n_projs is
\* (largest case selector - translation + 1), both computed without the
\* default Proj, and the default selector is source_default - translation.
C7_Original ==
    \A c \in SwitchesWithDefault :
        LET cases == {src0[p].val : p \in CondProjs(c)} \ {src0[c].val}
        IN  /\ SwitchTranslation(c) = SetMin(cases)
            /\ tgt[memo[c]].imm = SetMax(cases) - SetMin(cases) + 1
            /\ tgt[memo[c]].aux = src0[c].val - SetMin(cases)

\* C7 as amended: translation is the smallest and n_projs is (largest -
\* translation + 1) over the selectors of all outgoing Projs, the default
\* Proj included; every selector becomes old - translation and the default
\* selector is source_default - translation.
C7_SwitchNumbers ==
    \A c \in SwitchesWithDefault :
        LET all == {src0[p].val : p \in CondProjs(c)}
        IN  /\ SwitchTranslation(c) = SetMin(all)
            /\ tgt[memo[c]].imm = SetMax(all) - SetMin(all) + 1
            /\ tgt[memo[c]].aux = src0[c].val - SetMin(all)
            /\ \A p \in CondProjs(c) : src[p].val = src0[p].val - SetMin(all)

\* cases {5, 7, 8} with default 10: translation 5, n_projs 6, default 5
C7_Witness ==
    \E c \in SwitchesWithDefault :
        /\ {src0[p].val : p \in CondProjs(c)} = {5, 7, 8, 10}
        /\ src0[c].val = 10
        /\ SwitchTranslation(c) = 5
        /\ tgt[memo[c]].imm = 6
        /\ tgt[memo[c]].aux = 5
        /\ tgt[tgt[memo[c]].ins[1]].op = "Sub_reg"

\* the source Projs of the nodes with operation op
ProjsOf(op) == {p \in Nodes : src[p].op = "Proj" /\ src[src[p].ins[1]].op = op}

\* source node n lowered to the stack operation op over (old SP, size, NoMem)
StackLowered(n, op) ==
    /\ tgt[memo[n]].op = op
    /\ tgt[memo[n]].ins = <<memo[src[n].ins[1]], memo[src[n].ins[2]], NoMem>>

\* source Proj p lowered to the Proj with selector pn of the image of its predecessor
ProjLowered(p, pn, reg) ==
    /\ Transformed(p)
    /\ tgt[memo[p]].op = "Proj"
    /\ tgt[memo[p]].ins = <<memo[src[p].ins[1]]>>
    /\ tgt[memo[p]].imm = pn
    /\ tgt[memo[p]].reg = reg

\* the part of C8 about the stack nodes and the Projs of be_AddSP
StackInverted ==
    /\ \A n \in Nodes : Transformed(n) /\ src[n].op = "be_AddSP" => StackLowered(n, "SubSP")
    /\ \A n \in Nodes : Transformed(n) /\ src[n].op = "be_SubSP" => StackLowered(n, "AddSP")
    /\ \A p \in ProjsOf("be_AddSP") :
          HandlerRan(p) =>
              /\ src[p].val = pn_be_AddSP_sp => ProjLowered(p, pn_sparc_SubSP_stack, "sp")
              /\ src[p].val = pn_be_AddSP_res => ProjLowered(p, pn_sparc_SubSP_stack, "")
              /\ src[p].val = pn_be_AddSP_M => ProjLowered(p, pn_sparc_SubSP_M, "")

\* C8 as claimed: AddSP lowers to SubSP(old SP', size', NoMem) and SubSP to
\* AddSP; a Proj of AddSP with selector sp or res maps to the SubSP stack
\* selector (sp gets the SP register) and M to the SubSP memory selector, and
\* symmetrically a Proj of SubSP maps sp or res to the AddSP stack selector
\* and M to the AddSP memory selector.  be_SubSP defines the selectors sp
\* and M only, so res is any other selector of a Proj of a be_SubSP.
C8_Original ==
    /\ StackInverted
    /\ \A p \in ProjsOf("be_SubSP") :
          HandlerRan(p) =>
              IF src[p].val = pn_be_SubSP_M
              THEN ProjLowered(p, pn_sparc_AddSP_M, "")
              ELSE /\ Transformed(p)
                   /\ tgt[memo[p]].op = "Proj"
                   /\ tgt[memo[p]].imm = pn_sparc_AddSP_stack

\* C8 as amended: the same for the stack nodes and the Projs of AddSP; a
\* Proj of SubSP maps sp to the AddSP stack selector with the SP register
\* and M to the AddSP memory selector, and a Proj of SubSP with any other
\* selector is fatal.
C8_StackInverted ==
    /\ StackInverted
    /\ \A p \in ProjsOf("be_SubSP") :
          HandlerRan(p) =>
              /\ src[p].val = pn_be_SubSP_sp => ProjLowered(p, pn_sparc_AddSP_stack, "sp")
              /\ src[p].val = pn_be_SubSP_M => ProjLowered(p, pn_sparc_AddSP_M, "")
              /\ src[p].val \notin {pn_be_SubSP_sp, pn_be_SubSP_M} => ~Transformed(p)

\* a Proj of a be_SubSP with a third selector reached its handler, which
\* panicked, after the be_SubSP was lowered to AddSP
C8_Witness ==
    \E p \in ProjsOf("be_SubSP") :
        /\ HandlerRan(p)
        /\ src[p].val \notin {pn_be_SubSP_sp, pn_be_SubSP_M}
        /\ Transformed(src[p].ins[1])
        /\ tgt[memo[src[p].ins[1]]].op = "AddSP"

\* target node t is the extension of target node a from mode m to 32 bits
ExtensionOf(t, a, m) ==
    LET n == get_mode_size_bits(m)
        shifted(outer, inner, k) ==
            /\ tgt[t].op = outer /\ tgt[t].imm = k /\ Len(tgt[t].ins) = 1
            /\ tgt[tgt[t].ins[1]].op = inner
            /\ tgt[tgt[t].ins[1]].imm = k
            /\ tgt[tgt[t].ins[1]].ins = <<a>>
    IN  IF n = 32 THEN t = a
        ELSE IF mode_is_signed(m) THEN shifted("Sra_imm", "Sll_imm", 32 - n)
        ELSE IF n = 8 THEN tgt[t].op = "And_imm" /\ tgt[t].imm = 255 /\ tgt[t].ins = <<a>>
        ELSE IF n = 16 THEN shifted("Slr_imm", "Sll_imm", 16)
        ELSE FALSE

\* the source Cmp nodes over integer or reference operands
IntCmps == {n \in Nodes : src[n].op = "Cmp" /\ ~mode_is_float(src[src[n].ins[1]].mode)}

\* C9: an integer Cmp over operands of mode m lowers to Cmp_reg(e(a'), e(b'),
\* carry = false, is_unsigned = not signed(m)), e being the identity for 32
\* bits, Sll_imm/Sra_imm by 32 - n for signed n < 32, And_imm 0xFF for
\* unsigned 8 and Sll_imm/Slr_imm by 16 for unsigned 16; an unsigned width
\* other than 8, 16 or 32 is fatal.
C9_CmpExtended ==
    \A n \in IntCmps :
        LET m == src[src[n].ins[1]].mode
            w == get_mode_size_bits(m)
        IN  /\ Transformed(n) /\ (w <= 32) =>
                  LET t == tgt[memo[n]]
                  IN  /\ t.op = "Cmp_reg"
                      /\ t.imm = 0
                      /\ t.aux = (IF mode_is_signed(m) THEN 0 ELSE 1)
                      /\ Len(t.ins) = 2
                      /\ ExtensionOf(t.ins[1], memo[src[n].ins[1]], m)
                      /\ ExtensionOf(t.ins[2], memo[src[n].ins[2]], m)
            /\ HandlerRan(n) /\ ~mode_is_signed(m) /\ w \notin {8, 16, 32} => ~Transformed(n)

\* a Cmp of two signed 16-bit operands has been lowered
C9_Witness ==
    \E n \in IntCmps :
        /\ Transformed(n)
        /\ src[src[n].ins[1]].mode = "Hs"
        /\ tgt[tgt[memo[n]].ins[1]].op = "Sra_imm"
        /\ tgt[tgt[memo[n]].ins[2]].op = "Sra_imm"

\* the materialisations performed: <<target node returned, value>>
Materialisations ==
    {<<memo[n], tarval_convert_to_Iu(src[n].val)>> :
        n \in {c \in Nodes : Transformed(c) /\ src[c].op = "Const" /\ src[c].mode = "P"}} \cup
    {<<memo[n], src[n].val>> :
        n \in {c \in Nodes : Transformed(c) /\ src[c].op = "Const" /\ src[c].mode \in IntModes}} \cup
    {<<memo[n], 0>> :
        n \in {c \in Nodes : Transformed(c) /\ src[c].op = "Unknown"}} \cup
    {<<tgt[tgt[memo[c]].ins[1]].ins[2], SetMin({src0[p].val : p \in CondProjs(c)})>> :
        c \in SwitchConds}

\* node t has the shape the materialisation of v has
MaterialisedShape(t, v) ==
    IF -4096 <= v /\ v <= 4095
    THEN tgt[t].op = "Mov_imm" /\ tgt[t].imm = v /\ tgt[t].ins = <<>>
    ELSE /\ tgt[t].op = "LoImm" /\ tgt[t].imm = v /\ Len(tgt[t].ins) = 1
         /\ tgt[tgt[t].ins[1]].op = "HiImm"
         /\ tgt[tgt[t].ins[1]].imm = v
         /\ tgt[tgt[t].ins[1]].ins = <<>>

\* C10 as claimed: the materialisation of v (for Const, for integer Unknown
\* with v = 0 and for the switch translation) is Mov_imm(v) when
\* -4096 <= v <= 4095 and LoImm(HiImm(v), v) otherwise, and the node it
\* returns (Mov_imm, respectively LoImm) carries the frame-dependence edge.
C10_Original ==
    \A x \in Materialisations : MaterialisedShape(x[1], x[2]) /\ tgt[x[1]].frame

\* C10 as amended: the same shapes; the frame-dependence edge is on the
\* Mov_imm in the small form and on the HiImm, not on the returned LoImm,
\* in the large form.
C10_ConstGraph ==
    \A x \in Materialisations :
        /\ MaterialisedShape(x[1], x[2])
        /\ IF tgt[x[1]].op = "Mov_imm"
           THEN tgt[x[1]].frame
           ELSE tgt[tgt[x[1]].ins[1]].frame /\ ~tgt[x[1]].frame

\* a value outside the immediate range and one inside have been materialised
C10_Witness ==
    /\ \E x \in Materialisations : x[2] > 4095 /\ tgt[x[1]].op = "LoImm"
    /\ phase = "done"

\* the transformed Adds of (Const outside the immediate range, non-Const)
BigLeftAdds ==
    {n \in Nodes :
        /\ Transformed(n) /\ src[n].op = "Add" /\ ~mode_is_float(src[n].mode)
        /\ is_Const(get_binop_left(n)) /\ ~is_imm_encodeable(get_binop_left(n))
        /\ ~is_Const(get_binop_right(n))}

\* C11 as claimed: Add(Const v, x) with v outside [-4096, 4095] and x not a
\* Const lowers to Add_reg whose first operand is the image of x and whose
\* second operand is the LoImm(HiImm(v), v) chain: the constant moves right.
C11_Original ==
    \A n \in BigLeftAdds :
        LET t == tgt[memo[n]]
        IN  /\ t.op = "Add_reg" /\ Len(t.ins) = 2
            /\ t.ins[1] = memo[get_binop_right(n)]
            /\ MaterialisedShape(t.ins[2], get_tarval_long(get_binop_left(n)))

\* C11 as amended: Add(Const v, x) with v outside [-4096, 4095] and x not a
\* Const lowers to Add_reg whose first operand is the LoImm(HiImm(v), v)
\* chain of the constant and whose second operand is the image of x: the
\* operands keep their source order.
C11_BigConstStaysLeft ==
    \A n \in BigLeftAdds :
        LET t == tgt[memo[n]]
        IN  /\ t.op = "Add_reg" /\ Len(t.ins) = 2
            /\ t.ins[1] = memo[get_binop_left(n)]
            /\ tgt[t.ins[1]].op = "LoImm"
            /\ MaterialisedShape(t.ins[1], get_tarval_long(get_binop_left(n)))
            /\ t.ins[2] = memo[get_binop_right(n)]

\* Add(Const 9000, x) has been lowered to an Add_reg
C11_Witness ==
    \E n \in BigLeftAdds :
        /\ get_tarval_long(get_binop_left(n)) = 9000
        /\ get_binop_right(n) = ArgX
        /\ tgt[memo[n]].op = "Add_reg"

Range(seq) == {seq[i] : i \in 1..Len(seq)}

\* the nodes a source node depends on: its operands and its block
Deps(n) == Range(src[n].ins) \cup (IF src[n].block = 0 THEN {} ELSE {src[n].block})

RECURSIVE ReachFrom(_)
ReachFrom(S) ==
    LET T == S \cup UNION {Deps(n) : n \in S}
    IN  IF T = S THEN S ELSE ReachFrom(T)

\* the source nodes reachable from the roots
Reachable == ReachFrom(Range(roots))

Users(n) == {u \in Nodes : n \in Range(src[u].ins)}

\* operator u folds its Const operand c into an immediate without transforming it
Folds(u, c) ==
    /\ src[u].op \in BinaryOps /\ ~mode_is_float(src[u].mode)
    /\ is_imm_encodeable(c)
    /\ \/ get_binop_right(u) = c /\ get_binop_left(u) # c
       \/ /\ get_binop_left(u) = c /\ get_binop_right(u) # c
          /\ Commutative(src[u].op) /\ ~is_imm_encodeable(get_binop_right(u))

\* the reachable Consts used only as folded immediates
FoldedOnlyConsts ==
    {c \in Reachable : is_Const(c) /\ c \notin Range(roots) /\ \A u \in Users(c) : Folds(u, c)}

\* the reachable boolean Projs of a Cmp used only as the selector of a Cond
CmpSelectors ==
    {p \in Reachable :
        /\ src[p].op = "Proj" /\ src[src[p].ins[1]].op = "Cmp" /\ p \notin Range(roots)
        /\ \A u \in Users(p) : src[u].op = "Cond"}

\* the nodes the pass asks an image for: the roots, the nodes the handler of
\* a transformed node passes to be_transform_node and the nodes it enqueues
Requested ==
    Range(roots) \cup
    UNION {Range(Requests(m)) : m \in {n \in Nodes : Transformed(n)}} \cup
    UNION {Range(be_enqueue_preds(m)) :
              m \in {n \in Nodes : Transformed(n) /\ src[n].op \in {"Phi", "Block"}}}

\* C12 as claimed: when the pass has returned without a fatal error, every
\* source node reachable from the roots has an entry in the memo, the Consts
\* used only as folded immediates and the Proj-of-Cmp selectors included.
C12_Original ==
    phase = "done" => \A n \in Reachable : Transformed(n)

\* C12 as amended: when the pass has returned without a fatal error, a
\* source node has an entry in the memo exactly if it is a root or the
\* handler of a transformed node requested or enqueued it; a Const used only
\* as the folded immediate of binary operators and the boolean Proj-of-Cmp
\* used only as the selector of a two-way Cond are reachable and have none.
C12_RequestedHaveImages ==
    phase = "done" =>
        /\ \A n \in Nodes : Transformed(n) <=> n \in Requested
        /\ \A c \in FoldedOnlyConsts : ~Transformed(c)
        /\ \A p \in CmpSelectors : ~Transformed(p)

\* the pass has returned on a graph with a folded Const
C12_Witness ==
    /\ phase = "done"
    /\ \E c \in FoldedOnlyConsts : \E u \in Users(c) : Transformed(u) /\ ~Transformed(c)

\* the operators C13 lists, by the mode of the node
FloatListed ==
    {"Add", "Sub", "Mul", "Mulh", "And", "Or", "Eor", "Not", "Minus", "Abs",
     "Shl", "Shr", "Shrs", "Const", "Unknown"}

\* the floating-point cases of C13; a Div node has tuple mode, its
\* floating-point case is the Div of floating-point operands
FloatCase(n) ==
    \/ src[n].op \in FloatListed /\ mode_is_float(src[n].mode)
    \/ src[n].op = "Div" /\ mode_is_float(src[get_binop_left(n)].mode)
    \/ src[n].op = "Load" /\ mode_is_float(src[n].amode)
    \/ src[n].op = "Store" /\ mode_is_float(src[src[n].ins[3]].mode)
    \/ src[n].op = "Cmp" /\ mode_is_float(src[src[n].ins[1]].mode)

\* the floating-point cases that no handler checks for
FloatUnchecked(n) ==
    \/ src[n].op \in {"Mul", "Not", "Shl", "Shr", "Shrs"} /\ mode_is_float(src[n].mode)
    \/ src[n].op = "Div" /\ mode_is_float(src[get_binop_left(n)].mode)

\* once the handler of n has been invoked the pass cannot return, and n gets no image
EndsFatal(n) == calls[n] > 0 => ~Transformed(n) /\ phase \in {"transform", "fatal"}

DefinedSelectors(op) ==
    CASE op = "Load"     -> {pn_Load_res, pn_Load_M}
      [] op = "Store"    -> {pn_Store_M}
      [] op = "be_AddSP" -> {pn_be_AddSP_sp, pn_be_AddSP_res, pn_be_AddSP_M}
      [] op = "be_SubSP" -> {pn_be_SubSP_sp, pn_be_SubSP_M}
      [] op = "Div"      -> {pn_Div_res}
      [] op = "Cmp"      -> {}

\* the source Projs of a node of operation op with a selector outside the defined set
StrayProjs(op) == {p \in ProjsOf(op) : src[p].val \notin DefinedSelectors(op)}

\* C14 as claimed: a Proj of a Load, Store, AddSP, SubSP, Div or Cmp whose
\* selector is outside the set defined for the predecessor is fatal: the
\* pass aborts and no target Proj is produced for it.
C14_Original ==
    \A op \in {"Load", "Store", "be_AddSP", "be_SubSP", "Div", "Cmp"} :
        \A p \in StrayProjs(op) : EndsFatal(p)

\* C14 as amended: the same for Store, AddSP, SubSP, Div and Cmp; a Proj of
\* a Load with a selector other than res and M is not fatal: it is
\* duplicated, a target Proj with the source selector and mode on the image
\* of the Load.
C14_StrayProjs ==
    /\ \A op \in {"Store", "be_AddSP", "be_SubSP", "Div", "Cmp"} :
          \A p \in StrayProjs(op) : EndsFatal(p)
    /\ \A p \in StrayProjs("Load") :
          HandlerRan(p) =>
              /\ Transformed(p)
              /\ tgt[memo[p]].op = "Proj"
              /\ tgt[memo[p]].imm = src[p].val
              /\ tgt[memo[p]].mode = src[p].mode
              /\ tgt[memo[p]].ins = <<memo[get_Proj_pred(p)]>>
              /\ tgt[memo[get_Proj_pred(p)]].op = "Ld"

\* the handler of a Proj of a Store with a selector other than M has panicked
C14_Witness ==
    /\ phase = "fatal"
    /\ Top.node \in StrayProjs("Store")
    /\ ~Transformed(Top.node)

\* the Convs with a floating-point side of 32 or 64 bits whose handler has run
FloatConvs ==
    {n \in Nodes :
        /\ src[n].op = "Conv" /\ HandlerRan(n)
        /\ src[src[n].ins[1]].mode # src[n].mode
        /\ {src[src[n].ins[1]].mode, src[n].mode} \subseteq IntModes \cup {"F", "D"}
        /\ {src[src[n].ins[1]].mode, src[n].mode} \cap {"F", "D"} # {}}

\* C15: for a Conv with a floating-point side the conversion is chosen by
\* the widths of the floating-point modes: FP to FP from 32 to 64 bits emits
\* FsTOd and from 64 to 32 bits FdTOs; FP to integer emits FsTOi for a
\* 32-bit and FdTOi for a 64-bit FP source; integer to FP emits FiTOs for a
\* 32-bit and FiTOd for a 64-bit FP destination.
C15_ConvByWidth ==
    \A n \in FloatConvs :
        LET from == src[src[n].ins[1]].mode
            to   == src[n].mode
        IN  /\ Transformed(n)
            /\ tgt[memo[n]].op =
                  (CASE from = "F" /\ to = "D" -> "FsTOd"
                     [] from = "D" /\ to = "F" -> "FdTOs"
                     [] from = "F" /\ to \in IntModes -> "FsTOi"
                     [] from = "D" /\ to \in IntModes -> "FdTOi"
                     [] from \in IntModes /\ to = "F" -> "FiTOs"
                     [] from \in IntModes /\ to = "D" -> "FiTOd")

\* the transformed integer Abs nodes
IntAbs == {n \in Nodes : src[n].op = "Abs" /\ ~mode_is_float(src[n].mode) /\ Transformed(n)}

\* the last target node that existed before the handler of n created its own
LastBefore(n) == SetMax({memo[m] : m \in Nodes \ {n}} \cup {NoMem})

SwitchProjs == UNION {CondProjs(c) : c \in SwitchConds}

\* C17: the pass consumes the source graph read-only: apart from the
\* rewrite of the Proj selectors of a switch Cond, no handler changes the
\* mode, operands or attributes of a source node; in particular the mode of
\* a source be_Copy stays as it was.
C17_SourceReadOnly ==
    \A n \in Nodes :
        IF n \in SwitchProjs
        THEN src[n] = [src0[n] EXCEPT !.val = src[n].val]
        ELSE src[n] = src0[n]

\* the source graph is built from supported integer constructs: no
\* floating-point and no 64-bit mode, no Unknown outside the general-purpose
\* modes, and no Proj with an undefined selector that anything but a Cond uses
IntegerGraph ==
    /\ \A n \in Nodes :
          /\ ~mode_is_float(src0[n].mode) /\ ~mode_is_float(src0[n].amode)
          /\ get_mode_size_bits(src0[n].mode) <= 32
          /\ src0[n].op = "Unknown" => mode_needs_gp_reg(src0[n].mode)
    /\ \A op \in {"Store", "be_AddSP", "be_SubSP", "Div", "Cmp"} :
          \A p \in StrayProjs(op) :
              p \notin Range(roots) /\ \A u \in Users(p) : src0[u].op = "Cond"

\* no handler is entered for a node whose handler is still running
NoReentry ==
    /\ \A i, j \in 1..Len(stack) : i # j => stack[i].node # stack[j].node
    /\ \A n \in Nodes : calls[n] <= 1

\* the fixup has completed: no slot of the target graph holds a source node
FixupCompleted == \A t \in 1..Len(tgt) : \A i \in 1..Len(tgt[t].ins) : tgt[t].ins[i] > 0

\* C18 as claimed: on a finite graph of supported integer constructs whose
\* cycles pass through a Phi the pass terminates: eventually every reachable
\* node is Transformed and the Phi fixup has completed, and no handler is
\* re-entered for a node still in progress.
C18_Original ==
    /\ [](NoReentry)
    /\ (phase = "transform" /\ IntegerGraph) ~>
          (phase = "done" /\ FixupCompleted /\ \A n \in Reachable : Transformed(n))

\* C18 as amended: on such a graph the pass terminates: eventually it has
\* returned, every node that is a root or was requested or enqueued by a
\* handler is Transformed and the Phi fixup has completed, and no handler is
\* re-entered for a node still in progress.  Reachable nodes that no handler
\* requests (folded Consts, Cmp selectors, the memory operand of a Div) stay
\* untransformed.
C18_Terminates ==
    /\ [](NoReentry)
    /\ (phase = "transform" /\ IntegerGraph) ~>
          (phase = "done" /\ FixupCompleted /\ \A n \in Requested : Transformed(n))

\* the pass has returned on a graph with a loop through a Phi, all slots rewired
C18_Witness ==
    /\ phase = "done" /\ IntegerGraph /\ FixupCompleted
    /\ \E n \in Nodes : src[n].op = "Phi" /\ Transformed(n) /\ n \in ReachFrom(Range(src[n].ins))

\* the positions of the log that hold the event e
Positions(e) == {k \in 1..Len(order) : order[k] = e}

\* the installation of Phi p lies between its visit and every later first
\* visit of one of its operands
InstalledBeforeOperands(p) ==
    \A o \in Range(src[p].ins) :
        \A i \in Positions(<<"visit", p>>), j \in Positions(<<"visit", o>>) :
            i < j => \E k \in Positions(<<"install", p>>) : i < k /\ k < j

\* a slot has been rewired
Rewired == \E k \in 1..Len(order) : order[k][1] = "rewire"

\* after the first rewiring the log holds rewirings only
FixupApart ==
    \A i, j \in 1..Len(order) : i < j /\ order[i][1] = "rewire" => order[j][1] = "rewire"

Phis == {p \in Nodes : src[p].op = "Phi"}

\* C19 as claimed: the placeholder of a Phi is installed in the memo before
\* the first visit of any operand transformed on its behalf, and no slot is
\* rewired until every reachable source node has completed its first visit:
\* the fixup never overlaps the transformation.
C19_Original ==
    /\ \A p \in Phis : InstalledBeforeOperands(p)
    /\ FixupApart
    /\ Rewired => \A n \in Reachable : Transformed(n)

\* C19 as amended: the placeholder of a Phi is installed in the memo before
\* the first visit of any operand transformed on its behalf, and no slot is
\* rewired until every root and every node requested or enqueued by a
\* handler has completed its first visit; the fixup never overlaps the
\* transformation.  Reachable nodes that no handler requests are never visited.
C19_PhiOrdering ==
    /\ \A p \in Phis : InstalledBeforeOperands(p)
    /\ FixupApart
    /\ Rewired => /\ phase \in {"fixup", "done"}
                  /\ stack = <<>> /\ worklist = <<>>
                  /\ \A n \in Requested : Transformed(n)

\* a Phi was installed, then one of its operands was first visited, and the
\* slots of the Phi have been rewired
C19_Witness ==
    \E p \in Phis : \E o \in Range(src[p].ins) :
        /\ \E k \in Positions(<<"install", p>>), j \in Positions(<<"visit", o>>) : k < j
        /\ <<"rewire", memo[p]>> \in Events

\* the switch Conds of the source graph, lowered or not
AllSwitchConds == {c \in Nodes : src[c].op = "Cond" /\ src[src[c].ins[1]].mode # "b"}

\* the translation of switch Cond c, from the graph as it was given
SourceTranslation(c) == SetMin({src0[p].val : p \in CondProjs(c)})

\* C20: whatever the order in which a switch Cond and its Projs are first
\* requested, the selector rewrite of the Cond is applied exactly once, and
\* every target Proj duplicated from one of its Projs carries the
\* translated selector (old selector - translation), never the untranslated
\* and never a doubly translated one.
C20_RewriteOnce ==
    \A c \in AllSwitchConds :
        /\ Cardinality(Positions(<<"install", c>>)) = (IF Transformed(c) THEN 1 ELSE 0)
        /\ calls[c] <= 1
        /\ \A p \in CondProjs(c) :
              /\ src[p].val = src0[p].val - (IF Transformed(c) THEN SourceTranslation(c) ELSE 0)
              /\ Transformed(p) =>
                    /\ Transformed(c)
                    /\ tgt[memo[p]].op = "Proj"
                    /\ tgt[memo[p]].ins = <<memo[c]>>
                    /\ tgt[memo[p]].imm = src0[p].val - SourceTranslation(c)

\* a switch with smallest selector 5 whose Projs were requested before the
\* Cond: the pass has returned and the target Projs carry old - 5
C20_Witness ==
    /\ phase = "done"
    /\ \E c \in AllSwitchConds :
          /\ SourceTranslation(c) = 5
          /\ \A p \in CondProjs(c) : Transformed(p) /\ tgt[memo[p]].imm = src0[p].val - 5
          /\ \E p \in CondProjs(c) :
                \E i \in Positions(<<"visit", p>>), j \in Positions(<<"visit", c>>) : i < j

\* the absolute value of the number x
AbsoluteValue(x) == IF x < 0 THEN 0 - x ELSE x

\* C21: evaluated with 32-bit two's-complement semantics (Sra_imm
\* arithmetic shift, Xor_reg bitwise xor, Sub_reg(l, r) = l - r mod 2^32),
\* the node sequence emitted for Abs(x) computes the absolute value of x
\* for every signed 32-bit x other than the minimum value.
C21_AbsValue ==
    \A i \in 1..Len(run) :
        (src0[run[i].node].mode = "Is" /\ run[i].x # INT_MIN) =>
            run[i].result = AbsoluteValue(run[i].x)

=============================================================================
